---- MODULE Spec2Model ----
(***************************************************************************)
(* A model of the rust-proxy forwarding proxy: the accept loop with its    *)
(* admission semaphore (src/main.rs), the per-connection dispatcher and    *)
(* CONNECT tunnel (src/proxy.rs), the credential validator (src/auth.rs),  *)
(* the wire helpers (src/connection.rs), the protocol classifier           *)
(* (src/parser/detector.rs) and the HTTP/1.x, HTTP/2 and WebSocket         *)
(* handlers (src/handlers/*.rs).                                           *)
(*                                                                         *)
(* Byte strings are sequences of byte values 0..255; a Rust String is a    *)
(* sequence of code points.  Every await of the code is one action whose   *)
(* outcome (success, error, timeout, number of bytes) is chosen by the     *)
(* environment.                                                            *)
(***************************************************************************)
EXTENDS Integers, Sequences, FiniteSets, TLC

\* ---------------------------------------------------------------------
\* Bounds of the model
\* ---------------------------------------------------------------------
\* clients that connect during a run of the accept-loop specification
NumClients == 2
\* the configured max-connections of the accept-loop specification
MaxConnections == 1
\* bytes each peer sends after the initial buffer
MaxStream == 2
\* the longest configured user name of the credential checks
MaxCredLen == 2

\* ---------------------------------------------------------------------
\* Option values
\* ---------------------------------------------------------------------
None == [some |-> FALSE]
Some(x) == [some |-> TRUE, v |-> x]

\* ---------------------------------------------------------------------
\* str / [u8] primitives of the Rust standard library used by the code
\* ---------------------------------------------------------------------
Min(S) == CHOOSE x \in S : \A y \in S : x <= y

\* char::is_whitespace (code points below U+0800)
IsWs(c) == c \in {9, 10, 11, 12, 13, 32, 133, 160}

IsDigit(c) == c \in 48..57

\* String::from_utf8_lossy: ASCII and well-formed two-byte sequences decode,
\* every other byte becomes U+FFFD.  (Lead bytes of three- and four-byte
\* sequences, 0xE0..0xF4, are outside the inputs.)  Byte i continues a
\* two-byte sequence exactly when it is in 0x80..0xBF after a lead byte.
from_utf8_lossy(b) ==
  LET IsCont(i) == i > 1 /\ b[i] \in 128..191 /\ b[i - 1] \in 194..223
      Starts == {i \in 1..Len(b) : ~IsCont(i)}
      At(k) == CHOOSE i \in Starts : Cardinality({j \in Starts : j <= i}) = k
      Decode(i) ==
        IF b[i] < 128 THEN b[i]
        ELSE IF b[i] \in 194..223 /\ i < Len(b) /\ b[i + 1] \in 128..191
          THEN (b[i] - 192) * 64 + (b[i + 1] - 128)
        ELSE 65533
  IN IF \A i \in 1..Len(b) : b[i] < 128 THEN b
     ELSE [k \in 1..Cardinality(Starts) |-> Decode(At(k))]

\* String::from_utf8: None unless the bytes are well-formed
RECURSIVE Utf8From(_, _)
Utf8From(b, i) ==
  IF i > Len(b) THEN Some(<<>>)
  ELSE IF b[i] < 128
    THEN LET r == Utf8From(b, i + 1)
         IN IF r.some THEN Some(<<b[i]>> \o r.v) ELSE None
  ELSE IF b[i] \in 194..223 /\ i < Len(b) /\ b[i + 1] \in 128..191
    THEN LET r == Utf8From(b, i + 2)
         IN IF r.some THEN Some(<<(b[i] - 192) * 64 + (b[i + 1] - 128)>> \o r.v)
            ELSE None
  ELSE None

from_utf8(b) == Utf8From(b, 1)

\* char::len_utf8
len_utf8(c) == IF c < 128 THEN 1 ELSE IF c < 2048 THEN 2 ELSE 3

\* str::len: the length in bytes
RECURSIVE str_len(_)
str_len(s) == IF s = <<>> THEN 0 ELSE len_utf8(Head(s)) + str_len(Tail(s))

\* the suffix s[i..] and the slice s[i..j), with 1-based positions
From(s, i) == SubSeq(s, i, Len(s))

\* str::find: the 1-based position of the first match, 0 when there is none
find(s, pat) ==
  LET M == {i \in 1..(Len(s) - Len(pat) + 1) : SubSeq(s, i, i + Len(pat) - 1) = pat}
  IN IF M = {} THEN 0 ELSE Min(M)

contains(s, pat) == find(s, pat) # 0

starts_with(s, pat) == Len(s) >= Len(pat) /\ SubSeq(s, 1, Len(pat)) = pat

\* [u8]::windows(n).any(|w| w == pat)
windows_any(b, pat) == \E i \in 1..(Len(b) - Len(pat) + 1) : SubSeq(b, i, i + Len(pat) - 1) = pat

\* str::to_lowercase / to_uppercase on the code points of the inputs
to_lowercase(s) == [i \in 1..Len(s) |-> IF s[i] \in 65..90 THEN s[i] + 32 ELSE s[i]]
to_uppercase(s) == [i \in 1..Len(s) |-> IF s[i] \in 97..122 THEN s[i] - 32 ELSE s[i]]

\* str::trim
RECURSIVE trim_start(_)
trim_start(s) == IF s # <<>> /\ IsWs(Head(s)) THEN trim_start(Tail(s)) ELSE s
RECURSIVE trim_end(_)
trim_end(s) ==
  IF s # <<>> /\ IsWs(s[Len(s)]) THEN trim_end(SubSeq(s, 1, Len(s) - 1)) ELSE s
trim(s) == trim_end(trim_start(s))

\* str::split(c): the pieces between occurrences of c, at least one piece
RECURSIVE split(_, _)
split(s, c) ==
  LET i == find(s, <<c>>)
  IN IF i = 0 THEN <<s>> ELSE <<SubSeq(s, 1, i - 1)>> \o split(From(s, i + 1), c)

\* Iterator::next / nth on a split
nth(parts, n) == IF Len(parts) > n THEN Some(parts[n + 1]) ELSE None

\* str::split_once(c)
split_once(s, c) ==
  LET i == find(s, <<c>>)
  IN IF i = 0 THEN None ELSE Some(<<SubSeq(s, 1, i - 1), From(s, i + 1)>>)

\* str::lines: split after each LF, drop the LF and one CR before it; a last
\* line without LF is kept as it is
RECURSIVE lines(_)
lines(s) ==
  IF s = <<>> THEN <<>>
  ELSE LET i == find(s, <<10>>)
       IN IF i = 0 THEN <<s>>
          ELSE LET l == SubSeq(s, 1, i - 1)
                   l2 == IF l # <<>> /\ l[Len(l)] = 13 THEN SubSeq(l, 1, Len(l) - 1) ELSE l
               IN <<l2>> \o lines(From(s, i + 1))

\* str::split_whitespace: the maximal runs of non-whitespace
RECURSIVE split_whitespace(_)
split_whitespace(s) ==
  LET t == trim_start(s)
  IN IF t = <<>> THEN <<>>
     ELSE LET W == {i \in 1..Len(t) : IsWs(t[i])}
              e == IF W = {} THEN Len(t) + 1 ELSE Min(W)
          IN <<SubSeq(t, 1, e - 1)>> \o split_whitespace(From(t, e))

\* the decimal value of a digit string
RECURSIVE DecValue(_)
DecValue(s) ==
  IF s = <<>> THEN 0 ELSE DecValue(SubSeq(s, 1, Len(s) - 1)) * 10 + (s[Len(s)] - 48)

\* str::parse::<u16>: an optional '+', then digits, at most 65535
parse_u16(s) ==
  LET d == IF s # <<>> /\ s[1] = 43 THEN Tail(s) ELSE s
  IN IF d = <<>> \/ (\E i \in 1..Len(d) : ~IsDigit(d[i])) THEN None
     ELSE IF DecValue(d) > 65535 THEN None
     ELSE Some(DecValue(d))


\* ---------------------------------------------------------------------
\* base64::engine::general_purpose::STANDARD.decode
\* ---------------------------------------------------------------------
\* the value of a character of the standard alphabet, -1 for any other
B64Val(c) ==
  IF c \in 65..90 THEN c - 65
  ELSE IF c \in 97..122 THEN c - 71
  ELSE IF c \in 48..57 THEN c + 4
  ELSE IF c = 43 THEN 62
  ELSE IF c = 47 THEN 63
  ELSE -1

\* the bytes of one group of 2, 3 or 4 symbols; None when the unused low
\* bits of the last symbol are not zero
B64Group(g) ==
  LET v == [i \in 1..Len(g) |-> B64Val(g[i])]
      b1 == v[1] * 4 + (v[2] \div 16)
      b2 == (v[2] % 16) * 16 + (IF Len(g) > 2 THEN v[3] \div 4 ELSE 0)
      b3 == (IF Len(g) > 2 THEN (v[3] % 4) * 64 ELSE 0) + (IF Len(g) > 3 THEN v[4] ELSE 0)
  IN IF Len(g) = 2 THEN (IF v[2] % 16 = 0 THEN Some(<<b1>>) ELSE None)
     ELSE IF Len(g) = 3 THEN (IF v[3] % 4 = 0 THEN Some(<<b1, b2>>) ELSE None)
     ELSE Some(<<b1, b2, b3>>)

RECURSIVE B64Groups(_)
B64Groups(d) ==
  IF d = <<>> THEN Some(<<>>)
  ELSE LET n == IF Len(d) >= 4 THEN 4 ELSE Len(d)
           g == B64Group(SubSeq(d, 1, n))
           r == B64Groups(From(d, n + 1))
       IN IF g.some /\ r.some THEN Some(g.v \o r.v) ELSE None

\* padding is required and canonical: the length is a multiple of four, at
\* most two '=' and only at the end
base64_decode(s) ==
  LET n == Len(s)
      pad == IF n >= 2 /\ s[n] = 61 /\ s[n - 1] = 61 THEN 2
             ELSE IF n >= 1 /\ s[n] = 61 THEN 1 ELSE 0
      d == SubSeq(s, 1, n - pad)
  IN IF n % 4 # 0 THEN None
     ELSE IF \E i \in 1..Len(d) : B64Val(d[i]) < 0 THEN None
     ELSE B64Groups(d)

\* ---------------------------------------------------------------------
\* src/auth.rs
\* ---------------------------------------------------------------------
\* "Basic "
BASIC_ == <<66, 97, 115, 105, 99, 32>>

\* faulty variant: the scheme is not looked at, only the text after six bytes
validate_proxy_auth_any_scheme(cfg, auth_header) ==
  IF ~auth_header.some THEN FALSE
  ELSE LET decoded == base64_decode(From(auth_header.v, 7))
           credentials == IF decoded.some THEN from_utf8(decoded.v) ELSE None
           up == IF credentials.some THEN split_once(credentials.v, 58) ELSE None
       IN up.some /\ up.v[1] = cfg.username /\ up.v[2] = cfg.password

\* AuthConfig::validate_proxy_auth; auth_header is an Option<&str>
validate_proxy_auth(cfg, auth_header) ==
  IF ~auth_header.some THEN FALSE
  ELSE LET header == auth_header.v
       IN IF ~starts_with(header, BASIC_) THEN FALSE
          ELSE LET decoded == base64_decode(From(header, 7))
               IN IF ~decoded.some THEN FALSE
                  ELSE LET credentials == from_utf8(decoded.v)
                       IN IF ~credentials.some THEN FALSE
                          ELSE LET up == split_once(credentials.v, 58)
                               IN IF ~up.some THEN FALSE
                                  ELSE up.v[1] = cfg.username /\ up.v[2] = cfg.password

\* the symbol of the standard alphabet for a value 0..63
B64Sym(v) ==
  IF v < 26 THEN 65 + v
  ELSE IF v < 52 THEN 71 + v
  ELSE IF v < 62 THEN v - 4
  ELSE IF v = 62 THEN 43 ELSE 47

\* base64::engine::general_purpose::STANDARD.encode
RECURSIVE base64_encode(_)
base64_encode(b) ==
  IF b = <<>> THEN <<>>
  ELSE IF Len(b) = 1
    THEN <<B64Sym(b[1] \div 4), B64Sym((b[1] % 4) * 16), 61, 61>>
  ELSE IF Len(b) = 2
    THEN <<B64Sym(b[1] \div 4), B64Sym((b[1] % 4) * 16 + (b[2] \div 16)),
           B64Sym((b[2] % 16) * 4), 61>>
  ELSE <<B64Sym(b[1] \div 4), B64Sym((b[1] % 4) * 16 + (b[2] \div 16)),
         B64Sym((b[2] % 16) * 4 + (b[3] \div 64)), B64Sym(b[3] % 64)>>
         \o base64_encode(From(b, 4))

\* AuthConfig::generate_auth_header: "Basic " + base64(username:password)
generate_auth_header(cfg) == BASIC_ \o base64_encode(cfg.username \o <<58>> \o cfg.password)

\* faulty variant: a request without the header is let through
check_authentication_lenient(auth_config, auth_header) ==
  IF auth_config.some /\ auth_header.some
    THEN validate_proxy_auth(auth_config.v, auth_header)
  ELSE TRUE

\* check_authentication; auth_config is an Option<AuthConfig>
check_authentication(auth_config, auth_header) ==
  IF auth_config.some THEN validate_proxy_auth(auth_config.v, auth_header) ELSE TRUE

\* ---------------------------------------------------------------------
\* src/connection.rs
\* ---------------------------------------------------------------------
\* "Host: "
HOST_SP == <<72, 111, 115, 116, 58, 32>>
\* "Proxy-Authorization: "
PROXY_AUTH_SP == <<80, 114, 111, 120, 121, 45, 65, 117, 116, 104, 111, 114, 105, 122, 97, 116, 105, 111, 110, 58, 32>>

\* faulty variant: without a usable Host: value the target is ("", 80), as in
\* the HTTP/1.x parser
conn_parse_http_request_default(buffer) ==
  LET request == from_utf8_lossy(buffer)
      start == find(request, HOST_SP)
      rest == From(request, start + 6)
      end == find(rest, <<13>>)
      parts == split(SubSeq(rest, 1, end - 1), 58)
      port == IF Len(parts) > 1 THEN parse_u16(parts[2]) ELSE Some(80)
  IN IF start = 0 \/ end = 0 \/ ~port.some THEN Some([host |-> <<>>, port |-> 80])
     ELSE Some([host |-> parts[1], port |-> port.v])

\* connection::parse_http_request: the Host: value up to the next CR, split
\* on ':'; a port that does not parse makes the whole result None
conn_parse_http_request(buffer) ==
  LET request == from_utf8_lossy(buffer)
      start == find(request, HOST_SP)
  IN IF start = 0 THEN None
     ELSE LET rest == From(request, start + 6)
              end == find(rest, <<13>>)
          IN IF end = 0 THEN None
             ELSE LET parts == split(SubSeq(rest, 1, end - 1), 58)
                      host == parts[1]
                      port == IF Len(parts) > 1 THEN parse_u16(parts[2]) ELSE Some(80)
                  IN IF port.some THEN Some([host |-> host, port |-> port.v]) ELSE None

\* extract_proxy_auth: the text between the first "Proxy-Authorization: "
\* and the next CR
extract_proxy_auth(buffer) ==
  LET request == from_utf8_lossy(buffer)
      start == find(request, PROXY_AUTH_SP)
  IN IF start = 0 THEN None
     ELSE LET rest == From(request, start + 21)
              end == find(rest, <<13>>)
          IN IF end = 0 THEN None ELSE Some(SubSeq(rest, 1, end - 1))

\* "HTTP/1.0 407 Proxy Authentication Required\r\nProxy-Authenticate: Basic realm='RustProxy'\r\n\r\n"
RESP_407 == <<72, 84, 84, 80, 47, 49, 46, 48, 32, 52, 48, 55, 32, 80, 114, 111, 120, 121, 32, 65, 117, 116, 104, 101, 110, 116, 105, 99, 97, 116, 105, 111, 110, 32, 82, 101, 113, 117, 105, 114, 101, 100, 13, 10, 80, 114, 111, 120, 121, 45, 65, 117, 116, 104, 101, 110, 116, 105, 99, 97, 116, 101, 58, 32, 66, 97, 115, 105, 99, 32, 114, 101, 97, 108, 109, 61, 34, 82, 117, 115, 116, 80, 114, 111, 120, 121, 34, 13, 10, 13, 10>>
\* "HTTP/1.0 "
HTTP10_SP == <<72, 84, 84, 80, 47, 49, 46, 48, 32>>
\* "\r\nContent-Type: text/plain\r\n\r\n"
CT_TEXT_PLAIN == <<13, 10, 67, 111, 110, 116, 101, 110, 116, 45, 84, 121, 112, 101, 58, 32, 116, 101, 120, 116, 47, 112, 108, 97, 105, 110, 13, 10, 13, 10>>
\* "\r\n"
CRLF == <<13, 10>>

\* send_error_response: "HTTP/1.0 {status}\r\nContent-Type: text/plain\r\n\r\n{message}\r\n"
error_response(status, message) == HTTP10_SP \o status \o CT_TEXT_PLAIN \o message \o CRLF

\* "400 Bad Request"
STATUS_400 == <<52, 48, 48, 32, 66, 97, 100, 32, 82, 101, 113, 117, 101, 115, 116>>
\* "502 Bad Gateway"
STATUS_502 == <<53, 48, 50, 32, 66, 97, 100, 32, 71, 97, 116, 101, 119, 97, 121>>
\* "504 Gateway Timeout"
STATUS_504 == <<53, 48, 52, 32, 71, 97, 116, 101, 119, 97, 121, 32, 84, 105, 109, 101, 111, 117, 116>>

\* the messages of the error responses (UTF-8)
MSG_NO_HOST == <<231, 188, 186, 229, 176, 145, 72, 111, 115, 116, 229, 164, 180>>
MSG_BAD_WS == <<230, 151, 160, 230, 149, 136, 231, 154, 132, 87, 101, 98, 83, 111, 99, 107, 101, 116, 229, 141, 135, 231, 186, 167, 232, 175, 183, 230, 177, 130>>
MSG_WS_PARSE == <<232, 167, 163, 230, 158, 144, 87, 101, 98, 83, 111, 99, 107, 101, 116, 232, 175, 183, 230, 177, 130, 229, 164, 177, 232, 180, 165>>
MSG_UNKNOWN == <<230, 151, 160, 230, 179, 149, 232, 175, 134, 229, 136, 171, 231, 154, 132, 229, 141, 143, 232, 174, 174>>
MSG_TIMEOUT == <<232, 191, 158, 230, 142, 165, 231, 155, 174, 230, 160, 135, 230, 156, 141, 229, 138, 161, 229, 153, 168, 232, 182, 133, 230, 151, 182>>
MSG_BAD_HTTP == <<230, 151, 160, 230, 149, 136, 231, 154, 132, 72, 84, 84, 80, 232, 175, 183, 230, 177, 130>>
MSG_NO_CONNECT == <<230, 151, 160, 230, 179, 149, 232, 191, 158, 230, 142, 165, 229, 136, 176, 32>>


\* ---------------------------------------------------------------------
\* src/parser/detector.rs
\* ---------------------------------------------------------------------
\* "PRI * HTTP/2.0\r\n\r\nSM\r\n\r\n"
HTTP2_PREFACE == <<80, 82, 73, 32, 42, 32, 72, 84, 84, 80, 47, 50, 46, 48, 13, 10, 13, 10, 83, 77, 13, 10, 13, 10>>
\* "CONNECT"
S_CONNECT == <<67, 79, 78, 78, 69, 67, 84>>
\* "HTTP/1.0"
S_HTTP10 == <<72, 84, 84, 80, 47, 49, 46, 48>>
\* "HTTP/1.1"
S_HTTP11 == <<72, 84, 84, 80, 47, 49, 46, 49>>
\* "upgrade: websocket"
L_UPGRADE_WEBSOCKET == <<117, 112, 103, 114, 97, 100, 101, 58, 32, 119, 101, 98, 115, 111, 99, 107, 101, 116>>
\* "connection: upgrade"
L_CONNECTION_UPGRADE == <<99, 111, 110, 110, 101, 99, 116, 105, 111, 110, 58, 32, 117, 112, 103, 114, 97, 100, 101>>
\* "sec-websocket-key:"
L_SEC_WEBSOCKET_KEY == <<115, 101, 99, 45, 119, 101, 98, 115, 111, 99, 107, 101, 116, 45, 107, 101, 121, 58>>
\* "host:"
L_HOST == <<104, 111, 115, 116, 58>>

\* faulty variant: only the first line of the preface, "PRI * HTTP/2.0", is compared
is_http2_preface_first_line(buffer) == starts_with(buffer, SubSeq(HTTP2_PREFACE, 1, 14))

is_http2_preface(buffer) ==
  IF Len(buffer) < Len(HTTP2_PREFACE) THEN FALSE
  ELSE SubSeq(buffer, 1, Len(HTTP2_PREFACE)) = HTTP2_PREFACE

\* request.lines().next()
first_line(buffer) ==
  LET ls == lines(from_utf8_lossy(buffer))
  IN IF ls = <<>> THEN None ELSE Some(ls[1])

parse_http_method(buffer) ==
  LET fl == first_line(buffer)
  IN IF ~fl.some THEN None
     ELSE LET parts == split_whitespace(fl.v)
          IN IF parts = <<>> THEN None ELSE Some(to_uppercase(parts[1]))

parse_http_version(buffer) ==
  LET fl == first_line(buffer)
  IN IF ~fl.some THEN None
     ELSE LET parts == split_whitespace(fl.v)
          IN IF Len(parts) >= 3 THEN Some(to_uppercase(parts[3])) ELSE None

\* the second token split on ':': the first piece is the host, the second
\* piece the port
parse_connect_target(buffer) ==
  LET fl == first_line(buffer)
  IN IF ~fl.some THEN None
     ELSE LET parts == split_whitespace(fl.v)
          IN IF Len(parts) < 2 THEN None
             ELSE LET hp == split(parts[2], 58)
                      port == IF Len(hp) > 1 THEN parse_u16(hp[2]) ELSE None
                  IN IF port.some THEN Some([host |-> hp[1], port |-> port.v]) ELSE None

is_websocket_upgrade(buffer) ==
  LET request == to_lowercase(from_utf8_lossy(buffer))
  IN contains(request, L_UPGRADE_WEBSOCKET) /\ contains(request, L_CONNECTION_UPGRADE)

\* the first line whose lower-case form starts with prefix
find_line(ls, prefix) ==
  LET M == {i \in 1..Len(ls) : starts_with(to_lowercase(ls[i]), prefix)}
  IN IF M = {} THEN None ELSE Some(ls[Min(M)])

parse_websocket_details(buffer) ==
  LET ls == lines(from_utf8_lossy(buffer))
      key_line == find_line(ls, L_SEC_WEBSOCKET_KEY)
      host_line == find_line(ls, L_HOST)
  IN IF ~key_line.some THEN None
     ELSE LET ws_key == nth(split(key_line.v, 58), 1)
          IN IF ~ws_key.some \/ ~host_line.some THEN None
             ELSE LET hv == nth(split(host_line.v, 58), 1)
                  IN IF ~hv.some THEN None
                     ELSE LET parts == split(trim(hv.v), 58)
                              port == IF Len(parts) > 1 THEN parse_u16(parts[2]) ELSE Some(80)
                          IN IF port.some
                               THEN Some([host |-> parts[1], port |-> port.v, key |-> trim(ws_key.v)])
                             ELSE None

version_or_default(buffer) ==
  LET v == parse_http_version(buffer) IN IF v.some THEN v.v ELSE S_HTTP11

detect_protocol(buffer) ==
  IF is_http2_preface(buffer) THEN [kind |-> "Http2"]
  ELSE LET method == parse_http_method(buffer)
       IN IF ~method.some THEN [kind |-> "Unknown"]
          ELSE LET target == IF method.v = S_CONNECT THEN parse_connect_target(buffer) ELSE None
                   ws == IF is_websocket_upgrade(buffer) THEN parse_websocket_details(buffer)
                         ELSE None
                   version == parse_http_version(buffer)
               IN IF target.some
                    THEN [kind |-> "ConnectTunnel", host |-> target.v.host, port |-> target.v.port,
                          version |-> version_or_default(buffer)]
                  ELSE IF ws.some
                    THEN [kind |-> "WebSocketUpgrade", key |-> ws.v.key, host |-> ws.v.host,
                          port |-> ws.v.port, version |-> version_or_default(buffer)]
                  ELSE IF version.some /\ version.v = S_HTTP10 THEN [kind |-> "Http10"]
                  ELSE [kind |-> "Http11"]

\* ---------------------------------------------------------------------
\* src/handlers/http1.rs and src/handlers/websocket.rs: request parsing
\* ---------------------------------------------------------------------
\* the value of a Host line: host and port split at the first ':', port 80
\* when it is missing or does not parse
\* faulty variant: the port of the Host value is dropped
host_of_line_port_80(line) ==
  LET host_value == trim(From(line, 6))
      colon_pos == find(host_value, <<58>>)
  IN IF colon_pos # 0
       THEN [host |-> SubSeq(host_value, 1, colon_pos - 1), port |-> 80]
     ELSE [host |-> host_value, port |-> 80]

host_of_line(line) ==
  LET host_value == trim(From(line, 6))
      colon_pos == find(host_value, <<58>>)
  IN IF colon_pos # 0
       THEN LET port == parse_u16(trim(From(host_value, colon_pos + 1)))
            IN [host |-> SubSeq(host_value, 1, colon_pos - 1),
                port |-> IF port.some THEN port.v ELSE 80]
     ELSE [host |-> host_value, port |-> 80]

\* the sum of l.len() + 2 over the first n lines
RECURSIVE body_start(_, _)
body_start(ls, n) ==
  IF n = 0 THEN 0 ELSE body_start(ls, n - 1) + str_len(ls[n]) + 2

\* faulty variant: the authority of an absolute request URI takes the place
\* of the Host header
http1_parse_http_request_uri(buffer) ==
  LET ls == lines(from_utf8_lossy(buffer))
  IN IF ls = <<>> THEN [r |-> "None"]
     ELSE LET parts == split_whitespace(trim(ls[1]))
              host_line == find_line(ls, L_HOST)
              E == {i \in 1..Len(ls) : ls[i] = <<>>}
          IN IF Len(parts) < 2 THEN [r |-> "None"]
             ELSE IF E = {} THEN [r |-> "None"]
             ELSE IF body_start(ls, Min(E)) > Len(buffer) THEN [r |-> "Panic"]
             ELSE LET abs == starts_with(parts[2], <<104, 116, 116, 112, 58, 47, 47>>)
                      rest == From(parts[2], 8)
                      slash == find(rest, <<47>>)
                      authority == IF slash = 0 THEN rest ELSE SubSeq(rest, 1, slash - 1)
                      hp == IF abs THEN host_of_line(L_HOST \o authority)
                            ELSE IF host_line.some THEN host_of_line(host_line.v)
                            ELSE [host |-> <<>>, port |-> 80]
                  IN [r |-> "Some", host |-> hp.host, port |-> hp.port,
                      method |-> parts[1], full_path |-> parts[2],
                      body |-> From(buffer, body_start(ls, Min(E)) + 1)]

\* handlers::http1::parse_http_request: None, Some(request), or a panic of
\* the slice buffer[body_start..] when body_start exceeds the buffer
http1_parse_http_request(buffer) ==
  LET ls == lines(from_utf8_lossy(buffer))
  IN IF ls = <<>> THEN [r |-> "None"]
     ELSE LET parts == split_whitespace(trim(ls[1]))
              host_line == find_line(ls, L_HOST)
              hp == IF host_line.some THEN host_of_line(host_line.v)
                    ELSE [host |-> <<>>, port |-> 80]
              E == {i \in 1..Len(ls) : ls[i] = <<>>}
          IN IF Len(parts) < 2 THEN [r |-> "None"]
             ELSE IF E = {} THEN [r |-> "None"]
             ELSE IF body_start(ls, Min(E)) > Len(buffer) THEN [r |-> "Panic"]
             ELSE [r |-> "Some", host |-> hp.host, port |-> hp.port,
                   method |-> parts[1], full_path |-> parts[2],
                   body |-> From(buffer, body_start(ls, Min(E)) + 1)]

\* the loop of parse_websocket_upgrade over the lines from i on: a line is
\* tested for the key prefix first, then for the host prefix; a later match
\* overwrites an earlier one, and a Host line without ':' leaves the port
RECURSIVE ws_scan(_, _, _)
ws_scan(ls, i, acc) ==
  IF i > Len(ls) THEN acc
  ELSE LET line_lower == to_lowercase(ls[i])
       IN IF starts_with(line_lower, L_SEC_WEBSOCKET_KEY)
            THEN ws_scan(ls, i + 1, [acc EXCEPT !.key = Some(trim(From(ls[i], 19)))])
          ELSE IF starts_with(line_lower, L_HOST)
            THEN LET host_value == trim(From(ls[i], 6))
                     hp == host_of_line(ls[i])
                 IN IF find(host_value, <<58>>) # 0
                      THEN ws_scan(ls, i + 1, [acc EXCEPT !.host = hp.host, !.port = hp.port])
                    ELSE ws_scan(ls, i + 1, [acc EXCEPT !.host = host_value])
          ELSE ws_scan(ls, i + 1, acc)

\* parse_websocket_upgrade: Ok(None), Err (no key) or Ok(Some(upgrade))
parse_websocket_upgrade(buffer) ==
  LET ls == lines(from_utf8_lossy(buffer))
  IN IF ls = <<>> THEN [r |-> "None"]
     ELSE LET parts == split_whitespace(trim(ls[1]))
              acc == ws_scan(ls, 1, [key |-> None, host |-> <<>>, port |-> 80])
          IN IF Len(parts) < 2 THEN [r |-> "None"]
             ELSE IF ~acc.key.some THEN [r |-> "Err"]
             ELSE IF acc.host = <<>> THEN [r |-> "None"]
             ELSE [r |-> "Some", key |-> acc.key.v, host |-> acc.host,
                   port |-> acc.port, path |-> parts[2]]


\* ---------------------------------------------------------------------
\* Fixed byte strings written by the handlers
\* ---------------------------------------------------------------------
\* "HTTP/1.0 200 Connection Established\r\n\r\n"
RESP_200 == <<72, 84, 84, 80, 47, 49, 46, 48, 32, 50, 48, 48, 32, 67, 111, 110, 110, 101, 99, 116, 105, 111, 110, 32, 69, 115, 116, 97, 98, 108, 105, 115, 104, 101, 100, 13, 10, 13, 10>>
\* "HTTP/1.1 502 Bad Gateway\r\nContent-Length: 0\r\n\r\n"
H2_RESP_502 == <<72, 84, 84, 80, 47, 49, 46, 49, 32, 53, 48, 50, 32, 66, 97, 100, 32, 71, 97, 116, 101, 119, 97, 121, 13, 10, 67, 111, 110, 116, 101, 110, 116, 45, 76, 101, 110, 103, 116, 104, 58, 32, 48, 13, 10, 13, 10>>
\* "HTTP/1.1 "
HTTP11_SP == <<72, 84, 84, 80, 47, 49, 46, 49, 32>>
\* "\r\nContent-Type: text/plain\r\nConnection: close\r\n\r\n"
WS_ERR_TAIL == <<13, 10, 67, 111, 110, 116, 101, 110, 116, 45, 84, 121, 112, 101, 58, 32, 116, 101, 120, 116, 47, 112, 108, 97, 105, 110, 13, 10, 67, 111, 110, 110, 101, 99, 116, 105, 111, 110, 58, 32, 99, 108, 111, 115, 101, 13, 10, 13, 10>>
\* "GET "
GET_SP == <<71, 69, 84, 32>>
\* " HTTP/1.1\r\nHost: "
WS_REQ_HOST == <<32, 72, 84, 84, 80, 47, 49, 46, 49, 13, 10, 72, 111, 115, 116, 58, 32>>
\* "\r\nUpgrade: websocket\r\nConnection: Upgrade\r\nSec-WebSocket-Key: "
WS_REQ_UPGRADE == <<13, 10, 85, 112, 103, 114, 97, 100, 101, 58, 32, 119, 101, 98, 115, 111, 99, 107, 101, 116, 13, 10, 67, 111, 110, 110, 101, 99, 116, 105, 111, 110, 58, 32, 85, 112, 103, 114, 97, 100, 101, 13, 10, 83, 101, 99, 45, 87, 101, 98, 83, 111, 99, 107, 101, 116, 45, 75, 101, 121, 58, 32>>
\* "\r\nSec-WebSocket-Version: 13\r\n\r\n"
WS_REQ_VERSION == <<13, 10, 83, 101, 99, 45, 87, 101, 98, 83, 111, 99, 107, 101, 116, 45, 86, 101, 114, 115, 105, 111, 110, 58, 32, 49, 51, 13, 10, 13, 10>>
\* "HTTP/1.1 101"
S_HTTP11_101 == <<72, 84, 84, 80, 47, 49, 46, 49, 32, 49, 48, 49>>
\* "HTTP/1.0 101"
S_HTTP10_101 == <<72, 84, 84, 80, 47, 49, 46, 48, 32, 49, 48, 49>>

\* u16 as decimal text ({} of format!)
RECURSIVE dec(_)
dec(n) == IF n < 10 THEN <<48 + n>> ELSE dec(n \div 10) \o <<48 + (n % 10)>>

\* send_websocket_error
websocket_error(status) == HTTP11_SP \o status \o WS_ERR_TAIL

\* the upgrade request handle_websocket writes to the target
\* faulty variant: the Host header is written without the port
upgrade_request_host_only(upgrade) ==
  GET_SP \o upgrade.path \o WS_REQ_HOST \o upgrade.host
    \o WS_REQ_UPGRADE \o upgrade.key \o WS_REQ_VERSION

upgrade_request(upgrade) ==
  GET_SP \o upgrade.path \o WS_REQ_HOST \o upgrade.host \o <<58>> \o dec(upgrade.port)
    \o WS_REQ_UPGRADE \o upgrade.key \o WS_REQ_VERSION

\* the 502 of handle_http1: "无法连接到 {host}:{port}"
http1_502(request) ==
  error_response(STATUS_502, MSG_NO_CONNECT \o request.host \o <<58>> \o dec(request.port))

\* whether the target's first response lets handle_websocket go on
accepts_upgrade(bytes) ==
  LET response == from_utf8_lossy(bytes)
  IN contains(response, S_HTTP11_101) \/ contains(response, S_HTTP10_101)

\* ---------------------------------------------------------------------
\* Inputs: the configured credentials, the first reads of the clients and
\* the first responses of a WebSocket target
\* ---------------------------------------------------------------------
\* AuthConfig { username: "u", password: "p" }; "dTpw" is base64("u:p")
TheAuthConfig == [username |-> <<117>>, password |-> <<112>>]

\* "CONNECT h:443 HTTP/1.1\r\n\r\n"
REQ_CONNECT == <<67, 79, 78, 78, 69, 67, 84, 32, 104, 58, 52, 52, 51, 32, 72, 84, 84, 80, 47, 49, 46, 49, 13, 10, 13, 10>>
\* "CONNECT h:443 HTTP/1.1\r\nProxy-Authorization: Basic dTpw\r\n\r\n"
REQ_CONNECT_AUTH == <<67, 79, 78, 78, 69, 67, 84, 32, 104, 58, 52, 52, 51, 32, 72, 84, 84, 80, 47, 49, 46, 49, 13, 10, 80, 114, 111, 120, 121, 45, 65, 117, 116, 104, 111, 114, 105, 122, 97, 116, 105, 111, 110, 58, 32, 66, 97, 115, 105, 99, 32, 100, 84, 112, 119, 13, 10, 13, 10>>
\* "CONNECT h:443 HTTP/1.1\r\nProxy-Authorization: Basic dTpx\r\n\r\n"
REQ_CONNECT_BADAUTH == <<67, 79, 78, 78, 69, 67, 84, 32, 104, 58, 52, 52, 51, 32, 72, 84, 84, 80, 47, 49, 46, 49, 13, 10, 80, 114, 111, 120, 121, 45, 65, 117, 116, 104, 111, 114, 105, 122, 97, 116, 105, 111, 110, 58, 32, 66, 97, 115, 105, 99, 32, 100, 84, 112, 120, 13, 10, 13, 10>>
\* "GET http://h/ HTTP/1.1\r\nHost: h\r\nProxy-Authorization: Basic dTpw\r\n\r\n"
REQ_GET11_AUTH == <<71, 69, 84, 32, 104, 116, 116, 112, 58, 47, 47, 104, 47, 32, 72, 84, 84, 80, 47, 49, 46, 49, 13, 10, 72, 111, 115, 116, 58, 32, 104, 13, 10, 80, 114, 111, 120, 121, 45, 65, 117, 116, 104, 111, 114, 105, 122, 97, 116, 105, 111, 110, 58, 32, 66, 97, 115, 105, 99, 32, 100, 84, 112, 119, 13, 10, 13, 10>>
\* "GET / HTTP/1.0\r\nHost: h:8080\r\n\r\n"
REQ_GET10 == <<71, 69, 84, 32, 47, 32, 72, 84, 84, 80, 47, 49, 46, 48, 13, 10, 72, 111, 115, 116, 58, 32, 104, 58, 56, 48, 56, 48, 13, 10, 13, 10>>
\* "PRI * HTTP/2.0\r\n\r\nSM\r\n\r\nHost: h\r\nProxy-Authorization: Basic dTpw\r\n"
REQ_H2_AUTH == <<80, 82, 73, 32, 42, 32, 72, 84, 84, 80, 47, 50, 46, 48, 13, 10, 13, 10, 83, 77, 13, 10, 13, 10, 72, 111, 115, 116, 58, 32, 104, 13, 10, 80, 114, 111, 120, 121, 45, 65, 117, 116, 104, 111, 114, 105, 122, 97, 116, 105, 111, 110, 58, 32, 66, 97, 115, 105, 99, 32, 100, 84, 112, 119, 13, 10>>
\* "PRI * HTTP/2.0\r\n\r\nSM\r\n\r\n"
REQ_H2_BARE == <<80, 82, 73, 32, 42, 32, 72, 84, 84, 80, 47, 50, 46, 48, 13, 10, 13, 10, 83, 77, 13, 10, 13, 10>>
\* "GET /c HTTP/1.1\r\nHost: h:81\r\nUpgrade: websocket\r\nConnection: Upgrade\r\nSec-WebSocket-Key: a2V5\r\nProxy-Authorization: Basic dTpw\r\n\r\n"
REQ_WS_AUTH == <<71, 69, 84, 32, 47, 99, 32, 72, 84, 84, 80, 47, 49, 46, 49, 13, 10, 72, 111, 115, 116, 58, 32, 104, 58, 56, 49, 13, 10, 85, 112, 103, 114, 97, 100, 101, 58, 32, 119, 101, 98, 115, 111, 99, 107, 101, 116, 13, 10, 67, 111, 110, 110, 101, 99, 116, 105, 111, 110, 58, 32, 85, 112, 103, 114, 97, 100, 101, 13, 10, 83, 101, 99, 45, 87, 101, 98, 83, 111, 99, 107, 101, 116, 45, 75, 101, 121, 58, 32, 97, 50, 86, 53, 13, 10, 80, 114, 111, 120, 121, 45, 65, 117, 116, 104, 111, 114, 105, 122, 97, 116, 105, 111, 110, 58, 32, 66, 97, 115, 105, 99, 32, 100, 84, 112, 119, 13, 10, 13, 10>>
\* "\r\n"
REQ_BLANK == <<13, 10>>
\* "GET / HTTP/1.1\nHost: h\n\n"
REQ_GET_LF == <<71, 69, 84, 32, 47, 32, 72, 84, 84, 80, 47, 49, 46, 49, 10, 72, 111, 115, 116, 58, 32, 104, 10, 10>>
\* "GET / HTTP/1.1\r\nHost: h\r\nproxy-authorization: Basic dTpw\r\n\r\n"
REQ_GET_LCAUTH == <<71, 69, 84, 32, 47, 32, 72, 84, 84, 80, 47, 49, 46, 49, 13, 10, 72, 111, 115, 116, 58, 32, 104, 13, 10, 112, 114, 111, 120, 121, 45, 97, 117, 116, 104, 111, 114, 105, 122, 97, 116, 105, 111, 110, 58, 32, 66, 97, 115, 105, 99, 32, 100, 84, 112, 119, 13, 10, 13, 10>>
\* "CONNECT h HTTP/1.1\r\n\r\n"
REQ_CONNECT_NOPORT == <<67, 79, 78, 78, 69, 67, 84, 32, 104, 32, 72, 84, 84, 80, 47, 49, 46, 49, 13, 10, 13, 10>>
\* "PRI * HTTP/2.0\r\n\r\nSM\r\n\r\nHost: h:x\r\n"
REQ_H2_BADPORT == <<80, 82, 73, 32, 42, 32, 72, 84, 84, 80, 47, 50, 46, 48, 13, 10, 13, 10, 83, 77, 13, 10, 13, 10, 72, 111, 115, 116, 58, 32, 104, 58, 120, 13, 10>>
\* "PRI * HTTP/2.0\r\n\r\nSM\r\n\r\nHost: h:82\r\n"
REQ_H2_PORT == <<80, 82, 73, 32, 42, 32, 72, 84, 84, 80, 47, 50, 46, 48, 13, 10, 13, 10, 83, 77, 13, 10, 13, 10, 72, 111, 115, 116, 58, 32, 104, 58, 56, 50, 13, 10>>
\* "GET /c HTTP/1.1\r\nHost: h\r\nUpgrade: websocket\r\nConnection: Upgrade\r\nSec-WebSocket-Key: a2V5\r\n\r\n"
REQ_WS_NOPORT == <<71, 69, 84, 32, 47, 99, 32, 72, 84, 84, 80, 47, 49, 46, 49, 13, 10, 72, 111, 115, 116, 58, 32, 104, 13, 10, 85, 112, 103, 114, 97, 100, 101, 58, 32, 119, 101, 98, 115, 111, 99, 107, 101, 116, 13, 10, 67, 111, 110, 110, 101, 99, 116, 105, 111, 110, 58, 32, 85, 112, 103, 114, 97, 100, 101, 13, 10, 83, 101, 99, 45, 87, 101, 98, 83, 111, 99, 107, 101, 116, 45, 75, 101, 121, 58, 32, 97, 50, 86, 53, 13, 10, 13, 10>>
\* "GET http://a:81/x HTTP/1.1\r\nHost: h\r\n\r\n"
REQ_GET_ABS == <<71, 69, 84, 32, 104, 116, 116, 112, 58, 47, 47, 97, 58, 56, 49, 47, 120, 32, 72, 84, 84, 80, 47, 49, 46, 49, 13, 10, 72, 111, 115, 116, 58, 32, 104, 13, 10, 13, 10>>

Requests ==
  {REQ_CONNECT,
   REQ_GET_ABS,
   REQ_H2_PORT,
   REQ_WS_NOPORT,
   REQ_H2_BADPORT,
   REQ_CONNECT_NOPORT,
   REQ_CONNECT_AUTH,
   REQ_CONNECT_BADAUTH,
   REQ_GET11_AUTH,
   REQ_GET10,
   REQ_H2_AUTH,
   REQ_H2_BARE,
   REQ_WS_AUTH,
   REQ_BLANK,
   REQ_GET_LF,
   REQ_GET_LCAUTH}

\* "HTTP/1.1 101 Switching Protocols\r\n\r\n"
WS_RESP_101 == <<72, 84, 84, 80, 47, 49, 46, 49, 32, 49, 48, 49, 32, 83, 119, 105, 116, 99, 104, 105, 110, 103, 32, 80, 114, 111, 116, 111, 99, 111, 108, 115, 13, 10, 13, 10>>
\* "HTTP/1.1 403 Forbidden\r\n\r\n"
WS_RESP_403 == <<72, 84, 84, 80, 47, 49, 46, 49, 32, 52, 48, 51, 32, 70, 111, 114, 98, 105, 100, 100, 101, 110, 13, 10, 13, 10>>
\* "HTTP/1.1 403 Forbidden\r\nX-Tried: HTTP/1.1 101\r\n\r\n"
WS_RESP_403_101 == <<72, 84, 84, 80, 47, 49, 46, 49, 32, 52, 48, 51, 32, 70, 111, 114, 98, 105, 100, 100, 101, 110, 13, 10, 88, 45, 84, 114, 105, 101, 100, 58, 32, 72, 84, 84, 80, 47, 49, 46, 49, 32, 49, 48, 49, 13, 10, 13, 10>>

WsResponses == {WS_RESP_101, WS_RESP_403, WS_RESP_403_101}


\* ---------------------------------------------------------------------
\* State
\* ---------------------------------------------------------------------
VARIABLES
  config,    \* Config and the Option<AuthConfig> built from it, fixed at start
  clients,   \* how many clients connect during the run (environment)
  permits,   \* permits available in the semaphore
  acceptor,  \* the accept loop: where it is, the stream it holds and whether
             \* its last accept() returned Err
  arrived,   \* connections accepted so far; connection ids are 1..arrived
  task,      \* per connection: the locals of its task
  net,       \* per connection: what the peers sent and what was written to them
  probe      \* one call of a function of the code: its inputs and its result

vars == <<probe, config, clients, permits, acceptor, arrived, task, net>>

Conns == 1..NumClients

\* one relay direction: waiting in read, or holding a chunk to write
Copier0 == [st |-> "read", rd |-> 0, chunk |-> <<>>]

\* pc: idle (not spawned), read_initial, respond, dial, write_200,
\* forward_initial, ws_send_upgrade, ws_read_response, ws_forward_101, relay,
\* returned (handle_connection is over, the permit is still held), done
\* (the task is gone; nothing of the connection is kept); dials: the connects
\* the handler has started
Task0 ==
  [pc |-> "idle", buffer |-> <<>>, authorized |-> FALSE, protocol |-> "none",
   kind |-> "none", target |-> None, upgrade |-> None, out |-> <<>>, status |-> "none",
   dial |-> "none", dials |-> 0, sent200 |-> "none", relayed |-> FALSE, exit |-> "none",
   panicked |-> FALSE,
   c2t |-> Copier0, t2c |-> Copier0]

\* cSent/uSent: payload bytes the client/the target has sent after the first
\* exchange; the k-th payload byte of the client is k, of the target 16 + k;
\* cFailed/uFailed: the connection to the client/the target is broken, every
\* read and write on it returns Err from now on
Net0 ==
  [cSent |-> 0, cClosed |-> FALSE, cFailed |-> FALSE,
   uSent |-> 0, uClosed |-> FALSE, uFailed |-> FALSE,
   toUp |-> <<>>, toClient |-> <<>>]

ClientByte(k) == k
TargetByte(k) == 16 + k

AuthConfigs == {None, Some(TheAuthConfig)}

\* no function is under test while connections are served
NoProbe == [fn |-> "none"]

InitWith(n, m) ==
  /\ probe = NoProbe
  /\ config \in [max_connections : {m}, auth_config : AuthConfigs]
  /\ clients = n
  /\ permits = m
  /\ acceptor = [pc |-> "accept", stream |-> 0, failed |-> FALSE]
  /\ arrived = 0
  /\ task = [c \in Conns |-> Task0]
  /\ net = [c \in Conns |-> Net0]

\* one client, followed through every step of its connection
Init == InitWith(1, 1)

\* NumClients clients competing for MaxConnections permits of a proxy that
\* runs with credentials
InitAccept == InitWith(NumClients, MaxConnections) /\ config.auth_config.some

\* the prefixes a failed or timed-out write_all of n bytes may have written
Partial(n) == {k \in {0, 1, n - 1} : k >= 0 /\ k < n}

\* ---------------------------------------------------------------------
\* src/main.rs: the accept loop
\* ---------------------------------------------------------------------
\* faulty variant: accept is not held back by the pending acquisition; a
\* further connection takes the place of the waiting one
AcceptOk_eager ==
  /\ arrived < clients
  /\ arrived' = arrived + 1
  /\ acceptor' = [pc |-> "acquire", stream |-> arrived + 1, failed |-> FALSE]
  /\ UNCHANGED <<probe, config, clients, permits, task, net>>

\* listener.accept() returns Ok((stream, remote_addr))
AcceptOk ==
  /\ acceptor.pc = "accept"
  /\ arrived < clients
  /\ arrived' = arrived + 1
  /\ acceptor' = [pc |-> "acquire", stream |-> arrived + 1, failed |-> FALSE]
  /\ UNCHANGED <<probe, config, clients, permits, task, net>>

\* faulty variant: an accept error is returned from the loop
AcceptErr_fatal ==
  /\ acceptor.pc = "accept"
  /\ arrived < clients
  /\ acceptor' = [acceptor EXCEPT !.pc = "stopped", !.failed = TRUE]
  /\ UNCHANGED <<probe, config, clients, permits, arrived, task, net>>

\* listener.accept() returns Err for an incoming connection, which stays
\* pending: logged, the loop goes on
AcceptErr ==
  /\ acceptor.pc = "accept"
  /\ arrived < clients
  /\ acceptor' = [acceptor EXCEPT !.failed = TRUE]
  /\ UNCHANGED <<probe, config, clients, permits, arrived, task, net>>

\* faulty variant: the task is spawned without waiting for a permit
AcquireAndSpawn_NoPermit ==
  /\ acceptor.pc = "acquire"
  /\ task' = [task EXCEPT ![acceptor.stream].pc = "read_initial"]
  /\ acceptor' = [acceptor EXCEPT !.pc = "accept", !.stream = 0]
  /\ UNCHANGED <<probe, config, clients, permits, arrived, net>>

\* semaphore.acquire_owned() completes, then tokio::spawn of the task
AcquireAndSpawn ==
  /\ acceptor.pc = "acquire"
  /\ permits > 0
  /\ permits' = permits - 1
  /\ task' = [task EXCEPT ![acceptor.stream].pc = "read_initial"]
  /\ acceptor' = [acceptor EXCEPT !.pc = "accept", !.stream = 0]
  /\ UNCHANGED <<probe, config, clients, arrived, net>>

\* faulty variant: the task ends with its permit never given back
DropPermit_leak(c) ==
  /\ task[c].pc = "returned"
  /\ task' = [task EXCEPT ![c] = [Task0 EXCEPT !.pc = "done"]]
  /\ net' = [net EXCEPT ![c] = Net0]
  /\ UNCHANGED <<probe, config, clients, permits, acceptor, arrived>>

\* faulty variant: the permit is given back by drop(permit) and once more
\* by semaphore.add_permits(1)
DropPermit_twice(c) ==
  /\ task[c].pc = "returned"
  /\ task' = [task EXCEPT ![c] = [Task0 EXCEPT !.pc = "done"]]
  /\ net' = [net EXCEPT ![c] = Net0]
  /\ permits' = permits + 2
  /\ UNCHANGED <<probe, config, clients, acceptor, arrived>>

\* the spawned block after handle_connection returned: drop(permit), and
\* the task is over; its locals and both streams were dropped at the return
DropPermit(c) ==
  /\ task[c].pc = "returned"
  /\ task' = [task EXCEPT ![c] = [Task0 EXCEPT !.pc = "done"]]
  /\ net' = [net EXCEPT ![c] = Net0]
  /\ permits' = permits + 1
  /\ UNCHANGED <<probe, config, clients, acceptor, arrived>>

\* ---------------------------------------------------------------------
\* src/proxy.rs: Proxy::handle_connection
\* ---------------------------------------------------------------------
Respond(t, status, bytes) == [t EXCEPT !.pc = "respond", !.status = status, !.out = bytes]

\* faulty variant: the draft that answers 200 before it dials
StartDial_200_first(t, kind, host, port) ==
  [t EXCEPT !.pc = IF kind = "connect" THEN "write_200" ELSE "dial", !.kind = kind,
            !.dial = "pending", !.dials = @ + 1, !.target = Some([host |-> host, port |-> port])]

StartDial(t, kind, host, port) ==
  [t EXCEPT !.pc = "dial", !.kind = kind, !.dial = "pending", !.dials = @ + 1,
            !.target = Some([host |-> host, port |-> port])]

\* faulty variant: an unknown protocol is dropped without an answer
on_unknown_silent(t) == [t EXCEPT !.pc = "returned"]

\* the ProtocolType::Unknown arm of match protocol
on_unknown(t) == Respond(t, "400", error_response(STATUS_400, MSG_UNKNOWN))

\* the arms of match protocol, up to the first await of the handler
Dispatch(t, protocol) ==
  LET buffer == t.buffer
      t1 == [t EXCEPT !.protocol = protocol.kind]
  IN CASE protocol.kind = "ConnectTunnel" ->
            StartDial(t1, "connect", protocol.host, protocol.port)
       [] protocol.kind \in {"Http10", "Http11"} ->
            LET request == http1_parse_http_request(buffer)
            IN CASE request.r = "None" ->
                      Respond(t1, "400", error_response(STATUS_400, MSG_BAD_HTTP))
                 [] request.r = "Panic" ->
                      [t1 EXCEPT !.pc = "returned", !.panicked = TRUE]
                 [] OTHER -> StartDial(t1, "http1", request.host, request.port)
       [] protocol.kind = "Http2" ->
            LET hp == conn_parse_http_request(buffer)
            IN IF hp.some THEN StartDial(t1, "http2", hp.v.host, hp.v.port)
               ELSE Respond(t1, "400", error_response(STATUS_400, MSG_NO_HOST))
       [] protocol.kind = "WebSocketUpgrade" ->
            LET upgrade == parse_websocket_upgrade(buffer)
            IN CASE upgrade.r = "Some" ->
                      [StartDial(t1, "ws", upgrade.host, upgrade.port)
                         EXCEPT !.upgrade = Some(upgrade)]
                 [] upgrade.r = "None" ->
                      Respond(t1, "400", error_response(STATUS_400, MSG_BAD_WS))
                 [] OTHER -> Respond(t1, "400", error_response(STATUS_400, MSG_WS_PARSE))
       [] OTHER -> on_unknown(t1)

\* Ok(n): extract the header, authenticate, classify, dispatch
OnInitialBuffer(t, auth_config, buffer) ==
  LET auth_header == extract_proxy_auth(buffer)
      t1 == [t EXCEPT !.buffer = buffer]
  IN IF ~check_authentication(auth_config, auth_header)
       THEN Respond(t1, "407", RESP_407)
     ELSE Dispatch([t1 EXCEPT !.authorized = TRUE], detect_protocol(buffer))

\* stream.read(&mut buffer) of handle_connection
ReadInitial(c) ==
  /\ task[c].pc = "read_initial"
  /\ \/ \* Ok(0): the client closed
        /\ task' = [task EXCEPT ![c].pc = "returned"]
        /\ net' = [net EXCEPT ![c].cClosed = TRUE]
     \/ \* Err(e)
        /\ task' = [task EXCEPT ![c].pc = "returned"]
        /\ UNCHANGED net
     \/ \* Ok(n)
        /\ \E buffer \in Requests :
             task' = [task EXCEPT ![c] = OnInitialBuffer(@, config.auth_config, buffer)]
        /\ UNCHANGED net
  /\ UNCHANGED <<probe, config, clients, permits, acceptor, arrived>>

\* send_auth_required_response / send_error_response / send_websocket_error /
\* the write of a refused upgrade: write_all(out) to the client, then return
WriteResponse(c) ==
  /\ task[c].pc = "respond"
  /\ task' = [task EXCEPT ![c].pc = "returned"]
  /\ \/ net' = [net EXCEPT ![c].toClient = @ \o task[c].out]
     \/ \E k \in Partial(Len(task[c].out)) :
          net' = [net EXCEPT ![c].toClient = @ \o SubSeq(task[c].out, 1, k)]
  /\ UNCHANGED <<probe, config, clients, permits, acceptor, arrived>>


\* ---------------------------------------------------------------------
\* The upstream dial: timeout(connect_timeout, TcpStream::connect) in
\* handle_connect_tunnel, BackendConnector::connect in the other handlers
\* ---------------------------------------------------------------------
\* faulty variant: the tunnel relays without answering 200
after_dial_ok_no200(kind) ==
  CASE kind = "connect" -> "relay"
    [] kind = "ws" -> "ws_send_upgrade"
    [] OTHER -> "forward_initial"

\* faulty variant: the CONNECT handler forwards its initial buffer like the
\* HTTP handlers
after_dial_ok_forward(kind) ==
  IF kind = "ws" THEN "ws_send_upgrade" ELSE "forward_initial"

\* where each handler goes once its dial succeeded
after_dial_ok(kind) ==
  CASE kind = "connect" -> "write_200"
    [] kind = "ws" -> "ws_send_upgrade"
    [] OTHER -> "forward_initial"

DialOk(c) ==
  /\ task[c].pc = "dial"
  /\ task' = [task EXCEPT ![c].pc = after_dial_ok(task[c].kind), ![c].dial = "ok"]
  /\ UNCHANGED <<probe, config, clients, permits, acceptor, arrived, net>>

\* faulty variant: a refused dial is tried again
after_dial_failed_retry(t) ==
  IF t.dials < 2 THEN [t EXCEPT !.pc = "dial", !.dial = "pending", !.dials = @ + 1]
  ELSE [t EXCEPT !.pc = "returned"]

\* the Err arm of each handler's dial
after_dial_failed(t) ==
  CASE t.kind = "connect" -> [t EXCEPT !.pc = "returned"]
    [] t.kind = "http1" -> Respond(t, "502", http1_502(t.target.v))
    [] t.kind = "http2" -> Respond(t, "502", H2_RESP_502)
    [] OTHER -> Respond(t, "502", websocket_error(STATUS_502))

DialFail(c) ==
  /\ task[c].pc = "dial"
  /\ task' = [task EXCEPT ![c] = after_dial_failed([@ EXCEPT !.dial = "failed"])]
  /\ UNCHANGED <<probe, config, clients, permits, acceptor, arrived, net>>

\* the kinds whose dial is wrapped in timeout(connect_timeout, ..)
dial_has_timeout(kind) == kind = "connect"

\* faulty variant: a timed-out dial is treated like a refused one
after_dial_timeout_silent(t) == [t EXCEPT !.pc = "returned"]

\* the Err(_) arm of the timeout in handle_connect_tunnel
after_dial_timeout(t) == Respond(t, "504", error_response(STATUS_504, MSG_TIMEOUT))

DialTimeout(c) ==
  /\ task[c].pc = "dial"
  /\ dial_has_timeout(task[c].kind)
  /\ task' = [task EXCEPT ![c] = after_dial_timeout([@ EXCEPT !.dial = "timeout"])]
  /\ UNCHANGED <<probe, config, clients, permits, acceptor, arrived, net>>

\* ---------------------------------------------------------------------
\* handle_connect_tunnel: the 200 response
\* ---------------------------------------------------------------------
\* write_all(response) and flush under timeout(write_timeout, ..): whatever
\* the outcome, the handler goes on to the relay
\* faulty variant: a 200 that could not be written ends the handler
Write200_fatal(c) ==
  /\ task[c].pc = "write_200"
  /\ \/ /\ task' = [task EXCEPT ![c].pc = "relay", ![c].sent200 = "ok"]
        /\ net' = [net EXCEPT ![c].toClient = @ \o RESP_200]
     \/ \E outcome \in {"err", "timeout"}, k \in Partial(Len(RESP_200)) :
          /\ task' = [task EXCEPT ![c].pc = "returned", ![c].sent200 = outcome]
          /\ net' = [net EXCEPT ![c].toClient = @ \o SubSeq(RESP_200, 1, k)]
  /\ UNCHANGED <<probe, config, clients, permits, acceptor, arrived>>

Write200(c) ==
  /\ task[c].pc = "write_200"
  /\ \/ /\ task' = [task EXCEPT ![c].pc = "relay", ![c].sent200 = "ok"]
        /\ net' = [net EXCEPT ![c].toClient = @ \o RESP_200]
     \/ \E outcome \in {"err", "timeout"}, k \in Partial(Len(RESP_200)) :
          /\ task' = [task EXCEPT ![c].pc = "relay", ![c].sent200 = outcome]
          /\ net' = [net EXCEPT ![c].toClient = @ \o SubSeq(RESP_200, 1, k)]
  /\ UNCHANGED <<probe, config, clients, permits, acceptor, arrived>>

\* ---------------------------------------------------------------------
\* forward_http_request and handle_http2: the initial buffer
\* ---------------------------------------------------------------------
\* faulty variant: the HTTP handlers forward only what follows the request line
first_upstream_write_tail(t) ==
  IF t.kind = "ws" THEN upgrade_request(t.upgrade.v)
  ELSE From(t.buffer, find(t.buffer, <<10>>) + 1)

\* what the handler writes to the target before it relays
first_upstream_write(t) == IF t.kind = "ws" THEN upgrade_request(t.upgrade.v) ELSE t.buffer

\* target_writer.write_all(initial_buffer): on Err the handler returns
ForwardInitial(c) ==
  /\ task[c].pc = "forward_initial"
  /\ \/ /\ task' = [task EXCEPT ![c].pc = "relay"]
        /\ net' = [net EXCEPT ![c].toUp = @ \o first_upstream_write(task[c])]
     \/ \E k \in Partial(Len(first_upstream_write(task[c]))) :
          /\ task' = [task EXCEPT ![c].pc = "returned"]
          /\ net' = [net EXCEPT ![c].toUp = @ \o SubSeq(first_upstream_write(task[c]), 1, k)]
  /\ UNCHANGED <<probe, config, clients, permits, acceptor, arrived>>

\* ---------------------------------------------------------------------
\* src/handlers/websocket.rs: handle_websocket
\* ---------------------------------------------------------------------
\* target_stream.write_all(upgrade_request): on Err a 502 to the client
WsSendUpgrade(c) ==
  /\ task[c].pc = "ws_send_upgrade"
  /\ \/ /\ task' = [task EXCEPT ![c].pc = "ws_read_response"]
        /\ net' = [net EXCEPT ![c].toUp = @ \o first_upstream_write(task[c])]
     \/ \E k \in Partial(Len(first_upstream_write(task[c]))) :
          /\ task' = [task EXCEPT ![c] = Respond(@, "502", websocket_error(STATUS_502))]
          /\ net' = [net EXCEPT ![c].toUp = @ \o SubSeq(first_upstream_write(task[c]), 1, k)]
  /\ UNCHANGED <<probe, config, clients, permits, acceptor, arrived>>

\* after Ok(n) of the first read from the target
on_ws_response(t, bytes) ==
  IF ~accepts_upgrade(bytes) THEN Respond(t, "upstream", bytes)
  ELSE [t EXCEPT !.pc = "ws_forward_101", !.out = bytes]

\* faulty variant: a target that closes or fails before it answers ends the
\* handler without a response
WsReadResponse_silent(c) ==
  /\ task[c].pc = "ws_read_response"
  /\ \/ /\ task' = [task EXCEPT ![c].pc = "returned"]
        /\ net' = [net EXCEPT ![c].uClosed = TRUE]
     \/ /\ task' = [task EXCEPT ![c].pc = "returned"]
        /\ UNCHANGED net
     \/ /\ \E bytes \in WsResponses : task' = [task EXCEPT ![c] = on_ws_response(@, bytes)]
        /\ UNCHANGED net
  /\ UNCHANGED <<probe, config, clients, permits, acceptor, arrived>>

\* target_stream.read(&mut response_buffer)
WsReadResponse(c) ==
  /\ task[c].pc = "ws_read_response"
  /\ \/ \* Ok(0)
        /\ task' = [task EXCEPT ![c] = Respond(@, "502", websocket_error(STATUS_502))]
        /\ net' = [net EXCEPT ![c].uClosed = TRUE]
     \/ \* Err(e)
        /\ task' = [task EXCEPT ![c] = Respond(@, "502", websocket_error(STATUS_502))]
        /\ UNCHANGED net
     \/ \* Ok(n)
        /\ \E bytes \in WsResponses : task' = [task EXCEPT ![c] = on_ws_response(@, bytes)]
        /\ UNCHANGED net
  /\ UNCHANGED <<probe, config, clients, permits, acceptor, arrived>>

\* client_stream.write_all(response) and flush of the 101: Err returns
WsForward101(c) ==
  /\ task[c].pc = "ws_forward_101"
  /\ \/ /\ task' = [task EXCEPT ![c].pc = "relay"]
        /\ net' = [net EXCEPT ![c].toClient = @ \o task[c].out]
     \/ \E k \in Partial(Len(task[c].out)) :
          /\ task' = [task EXCEPT ![c].pc = "returned"]
          /\ net' = [net EXCEPT ![c].toClient = @ \o SubSeq(task[c].out, 1, k)]
  /\ UNCHANGED <<probe, config, clients, permits, acceptor, arrived>>


\* ---------------------------------------------------------------------
\* The relay: two copiers under tokio::select!, in handle_connect_tunnel,
\* forward_http_request, handle_http2 and handle_websocket
\* ---------------------------------------------------------------------
Dirs == {"c2t", "t2c"}

\* what the source of a direction has sent, and whether it has closed
SrcSent(n, d) == IF d = "c2t" THEN n.cSent ELSE n.uSent
SrcClosed(n, d) == IF d = "c2t" THEN n.cClosed ELSE n.uClosed

\* the connection a direction reads from, or writes to, is broken
SrcFailed(n, d) == IF d = "c2t" THEN n.cFailed ELSE n.uFailed
DstFailed(n, d) == IF d = "c2t" THEN n.uFailed ELSE n.cFailed

\* the payload bytes lo..hi of the source of direction d
Payload(d, lo, hi) ==
  [i \in 1..(hi - lo + 1) |-> IF d = "c2t" THEN ClientByte(lo + i - 1) ELSE TargetByte(lo + i - 1)]

\* bytes accepted by the destination of direction d
Deliver(n, d, bytes) ==
  IF d = "c2t" THEN [n EXCEPT !.toUp = @ \o bytes] ELSE [n EXCEPT !.toClient = @ \o bytes]

\* faulty variant: every relay answers an error with continue
continues_on_error_all(kind) == TRUE

\* the CONNECT copiers answer a timeout or an error with continue, the
\* copiers of the other handlers answer an error with break
continues_on_error(kind) == kind = "connect"
has_io_timeouts(kind) == kind = "connect"

\* a copier that breaks completes its select! arm: the other copier is
\* dropped and the handler returns; exit records which break it was
Break(t, why) == [t EXCEPT !.pc = "returned", !.exit = why]

\* faulty variant: the client-to-target copier of a forwarding handler takes
\* what it reads for a new request and its bytes for the name of the target
RelayReadData_reparse(c, d) ==
  /\ task[c].pc = "relay"
  /\ task[c][d].st = "read"
  /\ ~SrcFailed(net[c], d)
  /\ \E n \in 1..(SrcSent(net[c], d) - task[c][d].rd) :
       task' = [task EXCEPT ![c].relayed = TRUE,
                            ![c].target =
                               IF d = "c2t" /\ task[c].kind # "connect"
                                 THEN Some([host |-> Payload(d, task[c][d].rd + 1, task[c][d].rd + n),
                                            port |-> 80])
                               ELSE @,
                            ![c][d] = [st |-> "write", rd |-> @.rd + n,
                                       chunk |-> Payload(d, @.rd + 1, @.rd + n)]]
  /\ UNCHANGED <<probe, config, clients, permits, acceptor, arrived, net>>

\* faulty variant: the write takes the buffer from its start, not the n
\* bytes that the read has just placed
RelayReadData_stale(c, d) ==
  /\ task[c].pc = "relay"
  /\ task[c][d].st = "read"
  /\ ~SrcFailed(net[c], d)
  /\ \E n \in 1..(SrcSent(net[c], d) - task[c][d].rd) :
       task' = [task EXCEPT ![c].relayed = TRUE,
                            ![c][d] = [st |-> "write", rd |-> @.rd + n,
                                       chunk |-> Payload(d, 1, n)]]
  /\ UNCHANGED <<probe, config, clients, permits, acceptor, arrived, net>>

\* read returns Ok(n), n > 0
RelayReadData(c, d) ==
  /\ task[c].pc = "relay"
  /\ task[c][d].st = "read"
  /\ ~SrcFailed(net[c], d)
  /\ \E n \in 1..(SrcSent(net[c], d) - task[c][d].rd) :
       task' = [task EXCEPT ![c].relayed = TRUE,
                            ![c][d] = [st |-> "write", rd |-> @.rd + n,
                                       chunk |-> Payload(d, @.rd + 1, @.rd + n)]]
  /\ UNCHANGED <<probe, config, clients, permits, acceptor, arrived, net>>

\* read returns Ok(0): the source has closed and all it sent was read
RelayReadEof(c, d) ==
  /\ task[c].pc = "relay"
  /\ task[c][d].st = "read"
  /\ ~SrcFailed(net[c], d)
  /\ SrcClosed(net[c], d)
  /\ SrcSent(net[c], d) = task[c][d].rd
  /\ task' = [task EXCEPT ![c] = Break([@ EXCEPT !.relayed = TRUE], IF d = "c2t" THEN "eof_c2t" ELSE "eof_t2c")]
  /\ UNCHANGED <<probe, config, clients, permits, acceptor, arrived, net>>

\* the Err arm of a read
on_read_error(t) == IF continues_on_error(t.kind) THEN t ELSE Break(t, "error")

\* read returns Err(e)
RelayReadErr(c, d) ==
  /\ task[c].pc = "relay"
  /\ task[c][d].st = "read"
  /\ task' = [task EXCEPT ![c] = on_read_error([@ EXCEPT !.relayed = TRUE])]
  /\ UNCHANGED <<probe, config, clients, permits, acceptor, arrived, net>>

\* faulty variant: a read timeout ends the copier
RelayReadTimeout_break(c, d) ==
  /\ task[c].pc = "relay"
  /\ has_io_timeouts(task[c].kind)
  /\ task[c][d].st = "read"
  /\ ~SrcFailed(net[c], d)
  /\ SrcSent(net[c], d) = task[c][d].rd
  /\ ~SrcClosed(net[c], d)
  /\ task' = [task EXCEPT ![c] = Break([@ EXCEPT !.relayed = TRUE], "error")]
  /\ UNCHANGED <<probe, config, clients, permits, acceptor, arrived, net>>

\* timeout(read_timeout, read) elapses with nothing to read: continue
RelayReadTimeout(c, d) ==
  /\ task[c].pc = "relay"
  /\ has_io_timeouts(task[c].kind)
  /\ task[c][d].st = "read"
  /\ ~SrcFailed(net[c], d)
  /\ SrcSent(net[c], d) = task[c][d].rd
  /\ ~SrcClosed(net[c], d)
  /\ task' = [task EXCEPT ![c].relayed = TRUE]
  /\ UNCHANGED <<probe, config, clients, permits, acceptor, arrived, net>>

\* faulty variant: the relay of a forwarding handler returns once a chunk of
\* the target has been written to the client
RelayWriteOk_one_exchange(c, d) ==
  /\ task[c].pc = "relay"
  /\ task[c][d].st = "write"
  /\ ~DstFailed(net[c], d)
  /\ net' = [net EXCEPT ![c] = Deliver(@, d, task[c][d].chunk)]
  /\ task' = [task EXCEPT ![c] = IF d = "t2c" /\ @.kind # "connect"
                                   THEN [@ EXCEPT !.pc = "returned"]
                                 ELSE [@ EXCEPT ![d].st = "read", ![d].chunk = <<>>]]
  /\ UNCHANGED <<probe, config, clients, permits, acceptor, arrived>>

\* write_all(&buffer[..n]) returns Ok
RelayWriteOk(c, d) ==
  /\ task[c].pc = "relay"
  /\ task[c][d].st = "write"
  /\ ~DstFailed(net[c], d)
  /\ net' = [net EXCEPT ![c] = Deliver(@, d, task[c][d].chunk)]
  /\ task' = [task EXCEPT ![c][d].st = "read", ![c][d].chunk = <<>>]
  /\ UNCHANGED <<probe, config, clients, permits, acceptor, arrived>>

\* the Err and timeout arms of a write: the chunk is given up
on_write_failure(t, d) ==
  IF continues_on_error(t.kind) THEN [t EXCEPT ![d].st = "read", ![d].chunk = <<>>]
  ELSE Break(t, "error")

\* write_all returns Err(e) after k bytes
RelayWriteErr(c, d) ==
  /\ task[c].pc = "relay"
  /\ task[c][d].st = "write"
  /\ \E k \in Partial(Len(task[c][d].chunk)) :
       net' = [net EXCEPT ![c] = Deliver(@, d, SubSeq(task[c][d].chunk, 1, k))]
  /\ task' = [task EXCEPT ![c] = on_write_failure(@, d)]
  /\ UNCHANGED <<probe, config, clients, permits, acceptor, arrived>>

\* timeout(write_timeout, write_all) elapses after k bytes: continue
RelayWriteTimeout(c, d) ==
  /\ task[c].pc = "relay"
  /\ has_io_timeouts(task[c].kind)
  /\ task[c][d].st = "write"
  /\ ~DstFailed(net[c], d)
  /\ \E k \in Partial(Len(task[c][d].chunk)) :
       net' = [net EXCEPT ![c] = Deliver(@, d, SubSeq(task[c][d].chunk, 1, k))]
  /\ task' = [task EXCEPT ![c] = on_write_failure(@, d)]
  /\ UNCHANGED <<probe, config, clients, permits, acceptor, arrived>>

\* ---------------------------------------------------------------------
\* The peers of a relaying connection
\* ---------------------------------------------------------------------
ClientSend(c) ==
  /\ task[c].pc = "relay"
  /\ ~net[c].cClosed
  /\ ~net[c].cFailed
  /\ net[c].cSent < MaxStream
  /\ net' = [net EXCEPT ![c].cSent = @ + 1]
  /\ UNCHANGED <<probe, config, clients, permits, acceptor, arrived, task>>

ClientClose(c) ==
  /\ task[c].pc = "relay"
  /\ ~net[c].cClosed
  /\ ~net[c].cFailed
  /\ net' = [net EXCEPT ![c].cClosed = TRUE]
  /\ UNCHANGED <<probe, config, clients, permits, acceptor, arrived, task>>

TargetSend(c) ==
  /\ task[c].pc = "relay"
  /\ ~net[c].uClosed
  /\ ~net[c].uFailed
  /\ net[c].uSent < MaxStream
  /\ net' = [net EXCEPT ![c].uSent = @ + 1]
  /\ UNCHANGED <<probe, config, clients, permits, acceptor, arrived, task>>

TargetClose(c) ==
  /\ task[c].pc = "relay"
  /\ ~net[c].uClosed
  /\ ~net[c].uFailed
  /\ net' = [net EXCEPT ![c].uClosed = TRUE]
  /\ UNCHANGED <<probe, config, clients, permits, acceptor, arrived, task>>

\* the connection to the client breaks (reset, unreachable) without a close
ClientFail(c) ==
  /\ task[c].pc = "relay"
  /\ ~net[c].cClosed
  /\ ~net[c].cFailed
  /\ net' = [net EXCEPT ![c].cFailed = TRUE]
  /\ UNCHANGED <<probe, config, clients, permits, acceptor, arrived, task>>

\* the connection to the target breaks without a close
TargetFail(c) ==
  /\ task[c].pc = "relay"
  /\ ~net[c].uClosed
  /\ ~net[c].uFailed
  /\ net' = [net EXCEPT ![c].uFailed = TRUE]
  /\ UNCHANGED <<probe, config, clients, permits, acceptor, arrived, task>>

\* ---------------------------------------------------------------------
\* Specifications
\* ---------------------------------------------------------------------
\* the steps of the accept loop and of a task up to the relay
Control ==
  \/ AcceptOk
  \/ AcceptErr
  \/ AcquireAndSpawn
  \/ \E c \in Conns : DropPermit(c)
  \/ \E c \in Conns : ReadInitial(c)
  \/ \E c \in Conns : WriteResponse(c)
  \/ \E c \in Conns : DialOk(c)
  \/ \E c \in Conns : DialFail(c)
  \/ \E c \in Conns : DialTimeout(c)
  \/ \E c \in Conns : Write200(c)
  \/ \E c \in Conns : ForwardInitial(c)
  \/ \E c \in Conns : WsSendUpgrade(c)
  \/ \E c \in Conns : WsReadResponse(c)
  \/ \E c \in Conns : WsForward101(c)

\* the ways a relay ends or idles without payload
RelayIdle ==
  \/ \E c \in Conns, d \in Dirs : RelayReadEof(c, d)
  \/ \E c \in Conns, d \in Dirs : RelayReadErr(c, d)
  \/ \E c \in Conns, d \in Dirs : RelayReadTimeout(c, d)
  \/ \E c \in Conns : ClientClose(c)
  \/ \E c \in Conns : TargetClose(c)

\* payload through a relay
RelayData ==
  \/ \E c \in Conns : ClientSend(c)
  \/ \E c \in Conns : TargetSend(c)
  \/ \E c \in Conns, d \in Dirs : RelayReadData(c, d)
  \/ \E c \in Conns, d \in Dirs : RelayWriteOk(c, d)
  \/ \E c \in Conns, d \in Dirs : RelayWriteErr(c, d)
  \/ \E c \in Conns, d \in Dirs : RelayWriteTimeout(c, d)

Next == Control \/ RelayIdle \/ RelayData

\* one connection in full detail
Spec == Init /\ [][Next]_vars

\* the accept loop with several clients; their peers send no payload once
\* the relay runs (tasks share nothing but the semaphore)
NextAccept == Control \/ RelayIdle

\* tokio polls both copiers of a select!: a read that has data returns it and
\* a write that is not failing completes
SpecLive ==
  /\ Spec
  /\ \A c \in Conns, d \in Dirs :
       WF_vars(RelayReadData(c, d)) /\ WF_vars(RelayWriteOk(c, d))

SpecAccept == InitAccept /\ [][NextAccept]_vars

\* acquire_owned() of the one waiter completes once a permit is available
SpecAcceptFair == SpecAccept /\ WF_vars(AcquireAndSpawn)

\* the steps of the task of connection c that change its state or write
TaskStep(c) ==
  \/ DropPermit(c)
  \/ ReadInitial(c)
  \/ WriteResponse(c)
  \/ Write200(c)
  \/ ForwardInitial(c)
  \/ WsSendUpgrade(c)
  \/ WsForward101(c)
  \/ \E d \in Dirs : RelayReadData(c, d)
  \/ \E d \in Dirs : RelayReadEof(c, d)
  \/ \E d \in Dirs : RelayReadErr(c, d)
  \/ \E d \in Dirs : RelayReadTimeout(c, d)
  \/ \E d \in Dirs : RelayWriteOk(c, d)
  \/ \E d \in Dirs : RelayWriteErr(c, d)
  \/ \E d \in Dirs : RelayWriteTimeout(c, d)

\* peers that may also break their connection during the relay
NextGone ==
  \/ Next
  \/ \E c \in Conns : ClientFail(c)
  \/ \E c \in Conns : TargetFail(c)

\* the runtime keeps polling a spawned task: an operation of the task that
\* can complete does complete, with one of its outcomes
SpecGone == Init /\ [][NextGone]_vars /\ \A c \in Conns : WF_vars(TaskStep(c))


\* ---------------------------------------------------------------------
\* The functions of the code called on their own, over bounded inputs
\* ---------------------------------------------------------------------
\* the strings of at most n characters over chars
Strs(chars, n) == UNION {[1..k -> chars] : k \in 0..n}

\* Option<AuthConfig>: user names over {u, :}, passwords over {p, :}
ProbeAuthConfigs ==
  {None} \cup {Some([username |-> u, password |-> p]) :
                 u \in Strs({117, 58}, MaxCredLen), p \in Strs({112, 58}, 1)}

\* header values that are not "Basic " + standard Base64 of a text:
\* "Bearer dTpw", "basic dTpw", "BasicdTpw", "Basic  dTpw", "Basic dTpw ",
\* "Basic dTp" (no padding), "Basic dTp=" (stray low bits), "Basic dT*w",
\* "Basic /zpw" (decodes to FF ':' 'p'), "Basic", ""
MalformedHeaders ==
  {<<66, 101, 97, 114, 101, 114, 32, 100, 84, 112, 119>>,
   <<98, 97, 115, 105, 99, 32, 100, 84, 112, 119>>,
   <<66, 97, 115, 105, 99, 100, 84, 112, 119>>,
   <<66, 97, 115, 105, 99, 32, 32, 100, 84, 112, 119>>,
   <<66, 97, 115, 105, 99, 32, 100, 84, 112, 119, 32>>,
   <<66, 97, 115, 105, 99, 32, 100, 84, 112>>,
   <<66, 97, 115, 105, 99, 32, 100, 84, 112, 61>>,
   <<66, 97, 115, 105, 99, 32, 100, 84, 42, 119>>,
   <<66, 97, 115, 105, 99, 32, 47, 122, 112, 119>>,
   <<66, 97, 115, 105, 99>>,
   <<>>}

\* Option<&str>: no header, the header of every short text, malformed ones
ProbeHeaders ==
  {None}
    \cup {Some(BASIC_ \o base64_encode(t)) : t \in Strs({117, 112, 58}, MaxCredLen + 2)}
    \cup {Some(h) : h \in MalformedHeaders}

\* a call that has not returned yet
Call(fn, cfg, arg) == [fn |-> fn, cfg |-> cfg, arg |-> arg, done |-> FALSE, out |-> None]

\* "Upgrade: websocket\r\nConnection: Upgrade\r\nSec-WebSocket-Key: a2V5\r\nHost: h\r\n\r\n"
WS_HEADERS == <<85, 112, 103, 114, 97, 100, 101, 58, 32, 119, 101, 98, 115, 111, 99, 107, 101, 116, 13, 10, 67, 111, 110, 110, 101, 99, 116, 105, 111, 110, 58, 32, 85, 112, 103, 114, 97, 100, 101, 13, 10, 83, 101, 99, 45, 87, 101, 98, 83, 111, 99, 107, 101, 116, 45, 75, 101, 121, 58, 32, 97, 50, 86, 53, 13, 10, 72, 111, 115, 116, 58, 32, 104, 13, 10, 13, 10>>

\* initial buffers around the HTTP/2 preface: its prefixes, the preface with
\* one byte changed, each of them alone and followed by WebSocket headers,
\* and the first reads of the connection model
ProbeBuffers ==
  LET near == {SubSeq(HTTP2_PREFACE, 1, k) : k \in 0..Len(HTTP2_PREFACE)}
                \cup {[HTTP2_PREFACE EXCEPT ![i] = 120] : i \in 1..Len(HTTP2_PREFACE)}
  IN near \cup {b \o WS_HEADERS : b \in near} \cup Requests

\* Config::auth_enabled
auth_enabled(cfg) == cfg.username.some /\ cfg.password.some

\* faulty variant: one of the two is enough, the other defaults to ""
make_auth_config_either(cfg) ==
  IF cfg.username.some \/ cfg.password.some
    THEN Some([username |-> IF cfg.username.some THEN cfg.username.v ELSE <<>>,
               password |-> IF cfg.password.some THEN cfg.password.v ELSE <<>>])
  ELSE None

\* the auth_config that std_main hands to Proxy::new
make_auth_config(cfg) ==
  IF auth_enabled(cfg)
    THEN Some([username |-> cfg.username.v, password |-> cfg.password.v])
  ELSE None

\* --username and --password: absent, "u" / "p", or empty
ProbeConfigs ==
  [username : {None, Some(<<117>>), Some(<<>>)}, password : {None, Some(<<112>>), Some(<<>>)}]

ProbeCalls ==
  {Call("check_authentication", c, h) : c \in ProbeAuthConfigs, h \in ProbeHeaders}
    \cup {Call("detect_protocol", None, b) : b \in ProbeBuffers}
    \cup {Call("std_main", c, h) : c \in ProbeConfigs, h \in ProbeHeaders}

InitFn ==
  /\ probe \in ProbeCalls
  /\ config = [max_connections |-> 1, auth_config |-> None]
  /\ clients = 0
  /\ permits = 1
  /\ acceptor = [pc |-> "accept", stream |-> 0, failed |-> FALSE]
  /\ arrived = 0
  /\ task = [c \in Conns |-> Task0]
  /\ net = [c \in Conns |-> Net0]

Pending(fn) == probe.fn = fn /\ ~probe.done

Return(v) ==
  /\ probe' = [probe EXCEPT !.done = TRUE, !.out = v]
  /\ UNCHANGED <<config, clients, permits, acceptor, arrived, task, net>>

CallCheckAuthentication ==
  /\ Pending("check_authentication")
  /\ Return(check_authentication(probe.cfg, probe.arg))

CallDetectProtocol ==
  /\ Pending("detect_protocol")
  /\ Return(detect_protocol(probe.arg))

\* std_main builds the auth_config of the proxy, which checks a connection's
\* header against it
CallStdMain ==
  /\ Pending("std_main")
  /\ Return([auth_config |-> make_auth_config(probe.cfg),
             authorized |-> check_authentication(make_auth_config(probe.cfg), probe.arg)])

NextFn ==
  \/ CallCheckAuthentication
  \/ CallDetectProtocol
  \/ CallStdMain

\* the functions of the code, each called once on an input of the sets above
SpecFn == InitFn /\ [][NextFn]_vars


\* ---------------------------------------------------------------------
\* Properties
\* ---------------------------------------------------------------------
IsPrefix(a, b) == Len(a) <= Len(b) /\ SubSeq(b, 1, Len(a)) = a

\* a task that was spawned and has not yet given back its permit
Live(c) == task[c].pc \notin {"idle", "done"}

\* the task has read its initial buffer and is not over
HasBuffer(c) == task[c].buffer # <<>>

\* "proxy-authorization"
L_PROXY_AUTHORIZATION == <<112, 114, 111, 120, 121, 45, 97, 117, 116, 104, 111, 114, 105, 122, 97, 116, 105, 111, 110>>
\* "HTTP/1.0 200"
S_HTTP10_200 == <<72, 84, 84, 80, 47, 49, 46, 48, 32, 50, 48, 48>>
\* "HTTP/1.0 504"
S_HTTP10_504 == <<72, 84, 84, 80, 47, 49, 46, 48, 32, 53, 48, 52>>

\* the initial buffer carries, on a line of its own, the header
\* Proxy-Authorization (name in any letter case) whose trimmed value is
\* "Basic " + base64(user:pass)
CarriesValidCredentials(buffer) ==
  LET ls == lines(from_utf8_lossy(buffer))
  IN \E i \in 1..Len(ls) :
       LET nv == split_once(ls[i], 58)
       IN /\ nv.some
          /\ to_lowercase(trim(nv.v[1])) = L_PROXY_AUTHORIZATION
          /\ trim(nv.v[2]) = generate_auth_header(TheAuthConfig)

\* C1: the tasks spawned and not yet returned never outnumber the permits
\* the accept loop has taken, so never exceed max-connections: a task is
\* spawned only with a permit acquired for it.
C1_TasksWithinPermits ==
  /\ permits >= 0
  /\ Cardinality({c \in Conns : Live(c)}) <= config.max_connections - permits
  /\ Cardinality({c \in Conns : Live(c)}) <= config.max_connections

\* every permit is held while a further accepted connection waits
C1_Witness ==
  /\ permits = 0
  /\ acceptor.pc = "acquire"
  /\ Cardinality({c \in Conns : Live(c)}) = config.max_connections

\* C2: with an AuthConfig, a connection whose first request carries no valid
\* Proxy-Authorization header never dials, never writes upstream, never
\* sends 200 and never relays; whatever was dialed, written upstream or
\* relayed was authorized first.
C2_NothingBeforeAuth ==
  \A c \in Conns :
    /\ (config.auth_config.some /\ HasBuffer(c) /\ ~CarriesValidCredentials(task[c].buffer))
         => /\ task[c].dial = "none"
            /\ task[c].target = None
            /\ net[c].toUp = <<>>
            /\ task[c].sent200 = "none"
            /\ ~contains(net[c].toClient, S_HTTP10_200)
            /\ ~task[c].relayed
            /\ task[c].pc \in {"respond", "returned"}
    /\ (task[c].dial # "none" \/ net[c].toUp # <<>> \/ task[c].sent200 # "none"
          \/ task[c].pc = "relay" \/ task[c].relayed)
         => task[c].authorized

\* an unauthorized request was answered 407 in full and the handler returned
C2_Witness ==
  \E c \in Conns :
    /\ config.auth_config.some
    /\ HasBuffer(c)
    /\ ~CarriesValidCredentials(task[c].buffer)
    /\ task[c].pc = "returned"
    /\ net[c].toClient = RESP_407

\* C3: a connection is answered 407 if and only if auth is configured and
\* its first request carries no valid Proxy-Authorization header; a request
\* with valid credentials is never answered 407.
C3_407IffUnauthorized ==
  \A c \in Conns :
    HasBuffer(c) =>
      ((task[c].status = "407")
         <=> (config.auth_config.some /\ ~CarriesValidCredentials(task[c].buffer)))

\* C4: on a CONNECT connection the 200 is written only after a successful
\* dial, never after a failed or timed-out one, and after every successful
\* dial the write of the 200 is attempted.
C4_200IffDialOk ==
  \A c \in Conns :
    task[c].kind = "connect" =>
      /\ task[c].sent200 # "none" => task[c].dial = "ok"
      /\ task[c].dial # "ok" => ~contains(net[c].toClient, S_HTTP10_200)
      /\ task[c].dial = "ok" => (task[c].pc = "write_200" \/ task[c].sent200 # "none")
      /\ task[c].sent200 = "ok" => starts_with(net[c].toClient, RESP_200)

\* a tunnel relays after its 200 was written in full
C4_Witness ==
  \E c \in Conns :
    /\ task[c].kind = "connect"
    /\ task[c].dial = "ok"
    /\ task[c].sent200 = "ok"
    /\ task[c].pc = "relay"
    /\ net[c].toClient = RESP_200

\* some step of the relay of connection c: a read completed, a copier moved
\* or bytes reached a peer through a copier
RelayStep(c) ==
  \/ task'[c].relayed # task[c].relayed
  \/ task'[c].c2t # task[c].c2t
  \/ task'[c].t2c # task[c].t2c
  \/ net'[c].toUp # net[c].toUp

\* C5: on a CONNECT connection the dial has succeeded before the write of
\* the 200 starts, and the write-and-flush attempt of the 200 is over
\* (success, error or timeout) before any step of either relay direction.
C5_DialThen200ThenRelay ==
  [][\A c \in Conns :
       task'[c].kind = "connect" =>
         /\ (task'[c].pc = "write_200" \/ task'[c].sent200 # task[c].sent200
               \/ (net'[c].toClient # net[c].toClient /\ task[c].pc = "write_200"))
              => (task[c].dial = "ok" \/ task'[c].dial = "ok")
         /\ task'[c].sent200 # task[c].sent200 => task[c].dial = "ok"
         /\ RelayStep(c) => task[c].sent200 # "none"
         /\ task'[c].pc = "relay" => task'[c].sent200 # "none"]_vars

\* a tunnel whose 200 attempt failed has relayed a byte to the target
C5_Witness ==
  \E c \in Conns :
    /\ task[c].kind = "connect"
    /\ task[c].sent200 \in {"err", "timeout"}
    /\ net[c].toUp # <<>>


\* C6: in every handler a dial that fails for a reason other than a timeout
\* leads to a 502 written to the client, then to the return of the handler
\* without a relay.
C6_502OnDialFailure ==
  \A c \in Conns :
    task[c].dial = "failed" =>
      /\ task[c].status = "502"
      /\ task[c].pc \in {"respond", "returned"}
      /\ ~task[c].relayed

\* C7: when the connect timeout fires on a CONNECT dial, the handler gives up
\* the dial, writes to the client a response beginning HTTP/1.0 504 and
\* nothing else, and returns; no 200 is written, nothing reaches the target
\* and no relay runs.
C7_504OnDialTimeout ==
  \A c \in Conns :
    (task[c].kind = "connect" /\ task[c].dial = "timeout") =>
      /\ task[c].status = "504"
      /\ starts_with(task[c].out, S_HTTP10_504)
      /\ task[c].pc \in {"respond", "returned"}
      /\ IsPrefix(net[c].toClient, task[c].out)
      /\ task[c].pc = "respond" => net[c].toClient = <<>>
      /\ task[c].sent200 = "none"
      /\ ~contains(net[c].toClient, S_HTTP10_200)
      /\ net[c].toUp = <<>>
      /\ ~task[c].relayed

\* the 504 of a timed-out CONNECT dial reached the client in full
C7_Witness ==
  \E c \in Conns :
    /\ task[c].kind = "connect"
    /\ task[c].dial = "timeout"
    /\ task[c].pc = "returned"
    /\ starts_with(net[c].toClient, S_HTTP10_504)
    /\ net[c].toClient = task[c].out

\* the payload bytes of the target among what the client received
IsTargetPayload(b) == b > 16 /\ b < 32
RelayedToClient(c) == SelectSeq(net[c].toClient, IsTargetPayload)

\* C8: through a CONNECT tunnel, whatever the outcomes of the relay's reads
\* and writes, the bytes written to the target are a prefix of the bytes the
\* client sent after its request, and the bytes written to the client after
\* the 200 are a prefix of the bytes the target sent.
C8_TunnelPreservesBytes ==
  \A c \in Conns :
    task[c].kind = "connect" =>
      /\ IsPrefix(net[c].toUp, Payload("c2t", 1, net[c].cSent))
      /\ IsPrefix(RelayedToClient(c), Payload("t2c", 1, net[c].uSent))

\* what a forwarding handler is to write first to its target
ExpectedFirstWrite(c) ==
  IF task[c].kind = "ws" THEN upgrade_request(task[c].upgrade.v) ELSE task[c].buffer

Forwarded(c) == task[c].kind \in {"http1", "http2", "ws"}

\* the handler is past its first upstream write
PastFirstWrite(c) ==
  \/ task[c].pc \in {"relay", "ws_read_response", "ws_forward_101"}
  \/ task[c].relayed
  \/ task[c].c2t # Copier0

C10_ResponseDelivered ==
  \A c \in Conns :
    (/\ task[c].kind = "http1"
     /\ task[c].pc = "returned"
     /\ task[c].exit \in {"eof_c2t", "eof_t2c"}
     /\ net[c].uClosed)
      => net[c].toClient = Payload("t2c", 1, net[c].uSent)

\* C10 amended: on an HTTP/1.x forward the bytes delivered to the client are
\* at all times a prefix of what the origin wrote, nothing else is written
\* to the client, and when the relay ends because the origin-to-client
\* direction read EOF every byte the origin wrote has been delivered; the
\* client-to-origin direction reaching EOF first ends the relay at once.
C10_DeliveredUpToOriginEof ==
  \A c \in Conns :
    (task[c].kind = "http1" /\ task[c].dial = "ok") =>
      /\ IsPrefix(net[c].toClient, Payload("t2c", 1, net[c].uSent))
      /\ (task[c].pc = "returned" /\ task[c].exit = "eof_t2c")
           => net[c].toClient = Payload("t2c", 1, net[c].uSent)
      /\ task[c].exit = "eof_c2t" => task[c].pc = "returned"

\* the origin wrote MaxStream bytes and closed, all reached the client
C10_Witness ==
  \E c \in Conns :
    /\ task[c].kind = "http1"
    /\ task[c].pc = "returned"
    /\ task[c].exit = "eof_t2c"
    /\ net[c].uSent = MaxStream
    /\ net[c].toClient = Payload("t2c", 1, MaxStream)

\* the call of fn has returned
Returned(fn) == probe.fn = fn /\ probe.done

\* "Basic " followed by the standard Base64 of user ":" pass
ExactHeader(cfg) == BASIC_ \o base64_encode(cfg.username \o <<58>> \o cfg.password)

\* C11 as claimed: authorize(h) is true if and only if no AuthConfig is
\* configured or h is exactly "Basic " followed by the standard Base64 of
\* user ":" pass, for every configured (user, pass) and every header h.
C11_AuthorizeIffExactHeader ==
  Returned("check_authentication") =>
    (probe.out <=>
       \/ ~probe.cfg.some
       \/ probe.arg.some /\ probe.arg.v = ExactHeader(probe.cfg.v))

\* C11 amended: authorize(h) is true if and only if no AuthConfig is
\* configured, or the configured user contains no ':' and h is exactly
\* "Basic " followed by the standard Base64 of user ":" pass; no header is
\* accepted for a user that contains ':'.
C11_AuthorizeIffExactHeaderNoColon ==
  Returned("check_authentication") =>
    (probe.out <=>
       \/ ~probe.cfg.some
       \/ /\ probe.arg.some
          /\ probe.arg.v = ExactHeader(probe.cfg.v)
          /\ ~contains(probe.cfg.v.username, <<58>>))

\* a header was accepted for a configured, non-empty user and password
C11_Witness ==
  /\ Returned("check_authentication")
  /\ probe.cfg.some
  /\ probe.cfg.v.username # <<>>
  /\ probe.cfg.v.password # <<>>
  /\ probe.out = TRUE

\* the 407 of the specification:
\* "HTTP/1.0 407 Proxy Authentication Required\r\nProxy-Authenticate: Basic realm='Proxy'\r\n\r\n"
\* (with double quotes around Proxy)
SPEC_RESP_407 == <<72, 84, 84, 80, 47, 49, 46, 48, 32, 52, 48, 55, 32, 80, 114, 111, 120, 121, 32, 65, 117, 116, 104, 101, 110, 116, 105, 99, 97, 116, 105, 111, 110, 32, 82, 101, 113, 117, 105, 114, 101, 100, 13, 10, 80, 114, 111, 120, 121, 45, 65, 117, 116, 104, 101, 110, 116, 105, 99, 97, 116, 101, 58, 32, 66, 97, 115, 105, 99, 32, 114, 101, 97, 108, 109, 61, 34, 80, 114, 111, 120, 121, 34, 13, 10, 13, 10>>

\* C12: the response written on an authorization failure is exactly
\* HTTP/1.0 407 Proxy Authentication Required CRLF Proxy-Authenticate: Basic
\* realm="Proxy" CRLF CRLF, and nothing else is written to the client on
\* that connection.
C12_407ExactBytes ==
  \A c \in Conns :
    task[c].status = "407" =>
      /\ task[c].out = SPEC_RESP_407
      /\ IsPrefix(net[c].toClient, SPEC_RESP_407)
      /\ task[c].pc = "returned" => task[c].exit = "none"

\* C13: the Proxy-Authorization header is found whatever the letter case of
\* its name, and its value is the text after the first ':' trimmed of
\* whitespace: with auth configured, a first request that carries the valid
\* credentials in such a header is authorized and is not answered 407.
C13_HeaderNameAnyCase ==
  \A c \in Conns :
    (config.auth_config.some /\ HasBuffer(c) /\ CarriesValidCredentials(task[c].buffer))
      => task[c].authorized /\ task[c].status # "407"

\* C14: for a first line whose method is CONNECT the classifier returns
\* ConnectTunnel with the host before the last ':' of the second token and
\* the decimal port after it, and that target is dialed; when the second
\* token is missing, has no ':' or its port does not parse, the classifier
\* returns Unknown and the connection is answered 400 and closed undialed.
C14_ConnectTargetOrUnknown ==
  \A c \in Conns :
    LET buffer == task[c].buffer
        ls == lines(from_utf8_lossy(buffer))
        tokens == IF ls = <<>> THEN <<>> ELSE split_whitespace(ls[1])
        tok == IF Len(tokens) >= 2 THEN tokens[2] ELSE <<>>
        colons == {i \in 1..Len(tok) : tok[i] = 58}
        last == IF colons = {} THEN 0 ELSE CHOOSE i \in colons : \A j \in colons : j <= i
        port == IF last = 0 THEN None ELSE parse_u16(From(tok, last + 1))
    IN (/\ HasBuffer(c)
        /\ task[c].authorized
        /\ ~is_http2_preface(buffer)
        /\ tokens # <<>>
        /\ to_uppercase(tokens[1]) = S_CONNECT)
         => IF port.some
              THEN /\ task[c].protocol = "ConnectTunnel"
                   /\ task[c].target = Some([host |-> SubSeq(tok, 1, last - 1), port |-> port.v])
            ELSE /\ task[c].protocol = "Unknown"
                 /\ task[c].status = "400"
                 /\ task[c].dial = "none"

\* "HTTP/1.0 400 Bad Request"
S_HTTP10_400 == <<72, 84, 84, 80, 47, 49, 46, 48, 32, 52, 48, 48, 32, 66, 97, 100, 32, 82, 101, 113, 117, 101, 115, 116>>

\* C15: whenever the classifier returns Unknown for the initial buffer, the
\* dispatcher answers 400 and returns: the only bytes written to the client
\* are those of the 400, no upstream is dialed or written, no relay runs.
C15_Unknown400 ==
  \A c \in Conns :
    (/\ HasBuffer(c)
     /\ task[c].authorized
     /\ detect_protocol(task[c].buffer).kind = "Unknown")
      => /\ task[c].protocol = "Unknown"
         /\ task[c].status = "400"
         /\ starts_with(task[c].out, S_HTTP10_400)
         /\ task[c].pc \in {"respond", "returned"}
         /\ IsPrefix(net[c].toClient, task[c].out)
         /\ task[c].pc = "respond" => net[c].toClient = <<>>
         /\ task[c].dial = "none"
         /\ task[c].target = None
         /\ net[c].toUp = <<>>
         /\ ~task[c].relayed

\* an unclassifiable buffer was answered 400 in full
C15_Witness ==
  \E c \in Conns :
    /\ HasBuffer(c)
    /\ detect_protocol(task[c].buffer).kind = "Unknown"
    /\ task[c].pc = "returned"
    /\ starts_with(net[c].toClient, S_HTTP10_400)
    /\ net[c].toClient = task[c].out

\* the initial read returned Ok(0) and handle_connection has returned
ZeroRead(c) == task[c].pc = "returned" /\ task[c].buffer = <<>> /\ net[c].cClosed

\* C16: when the initial read returns zero bytes, nothing has been written
\* to the client, no upstream was dialed or written, the handler has
\* returned, and the task's one remaining step gives back its permit.
C16_ZeroReadSilent ==
  /\ [](\A c \in Conns :
          ZeroRead(c) =>
            /\ net[c].toClient = <<>>
            /\ net[c].toUp = <<>>
            /\ task[c].out = <<>>
            /\ task[c].status = "none"
            /\ task[c].dial = "none"
            /\ task[c].target = None
            /\ ~task[c].relayed
            /\ ENABLED DropPermit(c))
  /\ [][\A c \in Conns :
          (ZeroRead(c) /\ task'[c] # task[c])
            => task'[c].pc = "done" /\ permits' = permits + 1]_vars

\* a client closed before sending anything; its task still holds the permit
C16_Witness == \E c \in Conns : ZeroRead(c) /\ permits = 0

\* the buffer has no text "Host:", or the value after it, trimmed and split
\* at its first ':', has a port that is not a decimal port
NoHostTarget(buffer) ==
  LET i == find(buffer, SubSeq(HOST_SP, 1, 5))
      rest == From(buffer, i + 5)
      e == find(rest, <<13>>)
      value == trim(IF e = 0 THEN rest ELSE SubSeq(rest, 1, e - 1))
      colon == find(value, <<58>>)
  IN i = 0 \/ (colon # 0 /\ ~parse_u16(From(value, colon + 1)).some)

\* C17: when the initial buffer starts with the HTTP/2 preface and has no
\* Host header from which a target can be derived, the proxy answers 400 Bad
\* Request and returns: nothing else is written to the client, no upstream
\* is dialed or written.
C17_H2NoHost400 ==
  \A c \in Conns :
    (/\ HasBuffer(c)
     /\ task[c].authorized
     /\ starts_with(task[c].buffer, HTTP2_PREFACE)
     /\ NoHostTarget(task[c].buffer))
      => /\ task[c].protocol = "Http2"
         /\ task[c].status = "400"
         /\ starts_with(task[c].out, S_HTTP10_400)
         /\ task[c].pc \in {"respond", "returned"}
         /\ IsPrefix(net[c].toClient, task[c].out)
         /\ task[c].dial = "none"
         /\ task[c].target = None
         /\ net[c].toUp = <<>>
         /\ ~task[c].relayed

\* the bare preface was answered 400 in full
C17_Witness ==
  \E c \in Conns :
    /\ task[c].buffer = HTTP2_PREFACE
    /\ task[c].pc = "returned"
    /\ starts_with(net[c].toClient, S_HTTP10_400)
    /\ net[c].toClient = task[c].out

\* C18: the classifier returns Http2 if and only if the buffer has at least
\* 24 bytes and its first 24 bytes are the HTTP/2 preface; the test comes
\* before every other, so headers after the preface do not change the
\* answer, the 24 preface bytes alone classify as Http2 and no shorter
\* prefix of the preface does.
C18_PrefaceIffHttp2 ==
  Returned("detect_protocol") =>
    /\ Len(HTTP2_PREFACE) = 24
    /\ (probe.out.kind = "Http2")
         <=> (Len(probe.arg) >= 24 /\ SubSeq(probe.arg, 1, 24) = HTTP2_PREFACE)

\* the preface followed by the headers of a WebSocket upgrade is Http2
C18_Witness ==
  /\ Returned("detect_protocol")
  /\ probe.arg = HTTP2_PREFACE \o WS_HEADERS
  /\ probe.out.kind = "Http2"

\* the target that the one Host header of a request names: (value, 80) for a
\* value without ':', (host, p) for host:p with p a decimal port; None when the
\* request has no Host header, several of them, or a value of another form
HostHeaderTarget(buffer) ==
  LET ls == lines(from_utf8_lossy(buffer))
      H == {i \in 1..Len(ls) : starts_with(to_lowercase(ls[i]), L_HOST)}
  IN IF Cardinality(H) # 1 THEN None
     ELSE LET parts == split(trim(From(ls[Min(H)], 6)), 58)
          IN IF Len(parts) = 1 /\ parts[1] # <<>>
               THEN Some([host |-> parts[1], port |-> 80])
             ELSE IF Len(parts) = 2 /\ parts[1] # <<>> /\ parse_u16(parts[2]).some
               THEN Some([host |-> parts[1], port |-> parse_u16(parts[2]).v])
             ELSE None

\* C19: in the HTTP/1.x handler, the HTTP/2 routing and the WebSocket
\* handler, a Host value without ':' gives (host, 80), a value host:p with
\* decimal p gives (host, p), and that pair is the upstream that is dialed.
C19_DialsHostTarget ==
  \A c \in Conns :
    (/\ task[c].kind \in {"http1", "http2", "ws"}
     /\ task[c].dial # "none"
     /\ HostHeaderTarget(task[c].buffer).some)
      => task[c].target = HostHeaderTarget(task[c].buffer)

\* an HTTP/2 connection with Host: h:82 has dialed (h, 82)
C19_Witness ==
  \E c \in Conns :
    /\ task[c].kind = "http2"
    /\ task[c].dial = "ok"
    /\ HostHeaderTarget(task[c].buffer) = Some([host |-> <<104>>, port |-> 82])
    /\ task[c].target = Some([host |-> <<104>>, port |-> 82])

\* C20: in the relay of every handler, the CONNECT tunnel included, a
\* zero-byte read, a read error and a write error in either direction end
\* the relay: the handler returns, which drops (closes) the client stream
\* and the upstream stream.
C20_ErrorEndsRelay ==
  [][\A c \in Conns, d \in Dirs :
       (RelayReadEof(c, d) \/ RelayReadErr(c, d) \/ RelayWriteErr(c, d))
         => task'[c].pc = "returned"]_vars

\* C21: the relay of an HTTP/1.x forward does not end after one exchange:
\* it ends only when a copier read the close of its peer or met an error,
\* what reaches the target is the request followed by the client's further
\* bytes in order, and while the relay runs every further byte of the
\* client reaches the target and every byte of the target the client (again
\* and again the relay has caught up with all that both peers have sent).
C21_KeepAliveRelay ==
  /\ [](\A c \in Conns :
          (task[c].kind = "http1" /\ task[c].pc = "relay") =>
            /\ IsPrefix(net[c].toUp, task[c].buffer \o Payload("c2t", 1, net[c].cSent))
            /\ IsPrefix(net[c].toClient, Payload("t2c", 1, net[c].uSent)))
  /\ [][\A c \in Conns :
          (task[c].kind = "http1" /\ task[c].pc = "relay" /\ task'[c].pc # "relay") =>
            \/ task'[c].exit = "eof_c2t" /\ net[c].cClosed
            \/ task'[c].exit = "eof_t2c" /\ net[c].uClosed
            \/ task'[c].exit = "error"]_vars
  /\ \A c \in Conns :
       []<>(\/ ~(task[c].kind = "http1" /\ task[c].pc = "relay")
            \/ /\ net[c].toUp = task[c].buffer \o Payload("c2t", 1, net[c].cSent)
               /\ net[c].toClient = Payload("t2c", 1, net[c].uSent))

\* a second exchange: after the request and a first byte each way, a second
\* byte of the client reached the target and a second byte of the target
\* the client, and the relay is still running
C21_Witness ==
  \E c \in Conns :
    /\ task[c].kind = "http1"
    /\ task[c].pc = "relay"
    /\ net[c].toUp = task[c].buffer \o Payload("c2t", 1, 2)
    /\ net[c].toClient = Payload("t2c", 1, 2)

\* the first line of the target's first response contains a 101 status
FirstLine101(bytes) ==
  LET ls == lines(from_utf8_lossy(bytes))
  IN /\ ls # <<>>
     /\ contains(ls[1], S_HTTP11_101) \/ contains(ls[1], S_HTTP10_101)

\* C22: the WebSocket handler enters the relay only if the first line of
\* the target's first response contains HTTP/1.1 101 or HTTP/1.0 101, and
\* then the response has been written verbatim to the client before the
\* relay starts; any other response is forwarded unchanged to the client
\* and the handler ends without a relay.
C22_RelayOnlyAfter101 ==
  \A c \in Conns :
    task[c].kind = "ws" =>
      /\ (task[c].pc = "relay" \/ task[c].relayed) =>
           /\ FirstLine101(task[c].out)
           /\ IsPrefix(task[c].out, net[c].toClient)
      /\ (task[c].pc \in {"respond", "returned"} /\ task[c].status = "upstream") =>
           /\ ~FirstLine101(task[c].out)
           /\ ~task[c].relayed
           /\ IsPrefix(net[c].toClient, task[c].out)

\* "GET /c HTTP/1.1\r\nHost: h:81\r\nUpgrade: websocket\r\nConnection: Upgrade\r\nSec-WebSocket-Key: a2V5\r\nSec-WebSocket-Version: 13\r\n\r\n"
UPSTREAM_UPGRADE_81 == <<71, 69, 84, 32, 47, 99, 32, 72, 84, 84, 80, 47, 49, 46, 49, 13, 10, 72, 111, 115, 116, 58, 32, 104, 58, 56, 49, 13, 10, 85, 112, 103, 114, 97, 100, 101, 58, 32, 119, 101, 98, 115, 111, 99, 107, 101, 116, 13, 10, 67, 111, 110, 110, 101, 99, 116, 105, 111, 110, 58, 32, 85, 112, 103, 114, 97, 100, 101, 13, 10, 83, 101, 99, 45, 87, 101, 98, 83, 111, 99, 107, 101, 116, 45, 75, 101, 121, 58, 32, 97, 50, 86, 53, 13, 10, 83, 101, 99, 45, 87, 101, 98, 83, 111, 99, 107, 101, 116, 45, 86, 101, 114, 115, 105, 111, 110, 58, 32, 49, 51, 13, 10, 13, 10>>
\* the same with Host: h:80
UPSTREAM_UPGRADE_80 == <<71, 69, 84, 32, 47, 99, 32, 72, 84, 84, 80, 47, 49, 46, 49, 13, 10, 72, 111, 115, 116, 58, 32, 104, 58, 56, 48, 13, 10, 85, 112, 103, 114, 97, 100, 101, 58, 32, 119, 101, 98, 115, 111, 99, 107, 101, 116, 13, 10, 67, 111, 110, 110, 101, 99, 116, 105, 111, 110, 58, 32, 85, 112, 103, 114, 97, 100, 101, 13, 10, 83, 101, 99, 45, 87, 101, 98, 83, 111, 99, 107, 101, 116, 45, 75, 101, 121, 58, 32, 97, 50, 86, 53, 13, 10, 83, 101, 99, 45, 87, 101, 98, 83, 111, 99, 107, 101, 116, 45, 86, 101, 114, 115, 105, 111, 110, 58, 32, 49, 51, 13, 10, 13, 10>>

\* the request the target is to get for a client's upgrade request: the
\* client's path (/c), host and port (h:81, or h and the default 80) and key
\* (a2V5), and none of its other headers
UpstreamUpgradeFor(buffer) ==
  IF buffer = REQ_WS_AUTH THEN UPSTREAM_UPGRADE_81 ELSE UPSTREAM_UPGRADE_80

C24_NoResponse502 ==
  /\ [][\A c \in Conns :
          (/\ task[c].pc = "ws_read_response"
           /\ task'[c].pc # "ws_read_response"
           /\ task'[c].out \notin WsResponses)
            => /\ task'[c].pc = "respond"
               /\ task'[c].status = "502"
               /\ starts_with(task'[c].out, HTTP11_SP \o <<53, 48, 50, 32>>)]_vars
  /\ [](\A c \in Conns :
          (task[c].kind = "ws" /\ task[c].status = "502") =>
            /\ task[c].pc \in {"respond", "returned"}
            /\ ~task[c].relayed
            /\ IsPrefix(net[c].toClient, task[c].out)
            /\ task[c].pc = "respond" => net[c].toClient = <<>>)

\* the target closed without answering the upgrade request and the client
\* got the 502
C24_Witness ==
  \E c \in Conns :
    /\ task[c].kind = "ws"
    /\ task[c].pc = "returned"
    /\ net[c].uClosed
    /\ net[c].toUp = upgrade_request(task[c].upgrade.v)
    /\ task[c].status = "502"
    /\ net[c].toClient = task[c].out
    /\ starts_with(net[c].toClient, HTTP11_SP \o <<53, 48, 50, 32>>)

\* C25: every upstream dial, in the CONNECT, HTTP/1.x, HTTP/2 and WebSocket
\* handlers alike, is bounded by connect_timeout: wherever a handler waits
\* for a dial the timeout can fire and end the wait, and after it fired a
\* non-CONNECT handler has returned without writing anything to the client.
C25_DialBoundedByTimeout ==
  \A c \in Conns :
    /\ task[c].pc = "dial" => ENABLED DialTimeout(c)
    /\ (task[c].dial = "timeout" /\ task[c].kind # "connect") =>
         /\ task[c].pc = "returned"
         /\ net[c].toClient = <<>>

C27_AuthNeedsBoth ==
  Returned("std_main") =>
    LET both == probe.cfg.username.some /\ probe.cfg.password.some
    IN /\ probe.out.auth_config.some <=> both
       /\ ~both =>
            /\ probe.out.authorized
            /\ probe.out.authorized
                 = check_authentication(make_auth_config([username |-> None, password |-> None]),
                                        probe.arg)
       /\ both =>
            /\ probe.out.auth_config.v.username = probe.cfg.username.v
            /\ probe.out.auth_config.v.password = probe.cfg.password.v
            /\ ~probe.arg.some => ~probe.out.authorized

\* only the username is configured and a connection without a header is
\* authorized
C27_Witness ==
  /\ Returned("std_main")
  /\ probe.cfg.username.some
  /\ ~probe.cfg.password.some
  /\ ~probe.arg.some
  /\ probe.out.authorized

\* C28: when the write or the flush of the 200 fails or exceeds the write
\* timeout, the CONNECT handler still goes on to the relay: the step that
\* ends the failed attempt starts both copiers, and the handler (and with
\* it the upstream connection) ends only when a copier of the relay breaks.
C28_Failed200StillRelays ==
  /\ [][\A c \in Conns :
          (task[c].pc = "write_200" /\ task'[c].sent200 \in {"err", "timeout"}) =>
            /\ task'[c].pc = "relay"
            /\ task'[c].c2t = Copier0
            /\ task'[c].t2c = Copier0
            /\ net'[c].toUp = <<>>
            /\ ~net'[c].uClosed]_vars
  /\ [](\A c \in Conns :
          (task[c].sent200 \in {"err", "timeout"} /\ task[c].pc = "returned")
            => task[c].exit \in {"eof_c2t", "eof_t2c"})

\* after a 200 that timed out with nothing written, a byte went each way
C28_Witness ==
  \E c \in Conns :
    /\ task[c].sent200 = "timeout"
    /\ task[c].pc = "relay"
    /\ net[c].toUp = Payload("c2t", 1, 1)
    /\ net[c].toClient = Payload("t2c", 1, 1)

\* C29: in the CONNECT relay a read or a write that times out does not end
\* its direction: after the step the connection is still relaying with that
\* copier back at its read, however many timeouts came before, and the
\* relay ends only when a direction terminates.
C29_TimeoutContinues ==
  /\ [][\A c \in Conns, d \in Dirs :
          (RelayReadTimeout(c, d) \/ RelayWriteTimeout(c, d)) =>
            /\ task[c].kind = "connect"
            /\ task'[c].pc = "relay"
            /\ task'[c][d].st = "read"
            /\ task'[c].exit = "none"]_vars
  /\ [](\A c \in Conns :
          (task[c].kind = "connect" /\ task[c].relayed /\ task[c].pc # "relay")
            => /\ task[c].pc = "returned"
               /\ task[c].exit \in {"eof_c2t", "eof_t2c"})

\* a tunnel still relaying after a read returned while both peers were
\* silent and open
C29_Witness ==
  \E c \in Conns :
    /\ task[c].kind = "connect"
    /\ task[c].pc = "relay"
    /\ task[c].relayed
    /\ net[c].cSent = 0 /\ net[c].uSent = 0
    /\ ~net[c].cClosed /\ ~net[c].uClosed
    /\ ENABLED RelayReadTimeout(c, "t2c")

\* C30: for CONNECT no byte of the initial buffer is ever written to the
\* target: every byte the target has received is a byte the client sent
\* after its request, read by the relay after the 200 step.
C30_ConnectBufferDiscarded ==
  \A c \in Conns :
    task[c].kind = "connect" =>
      /\ \A j \in 1..Len(task[c].buffer), k \in 1..MaxStream :
           task[c].buffer[j] # ClientByte(k)
      /\ \A i \in 1..Len(net[c].toUp) :
           \E k \in 1..net[c].cSent : net[c].toUp[i] = ClientByte(k)
      /\ net[c].toUp # <<>> => (task[c].sent200 # "none" /\ task[c].relayed)
      /\ task[c].pc \in {"dial", "write_200"} => net[c].toUp = <<>>

\* the target of a tunnel has received the client's first byte and nothing
\* of the CONNECT request
C30_Witness ==
  \E c \in Conns :
    /\ task[c].kind = "connect"
    /\ task[c].buffer = REQ_CONNECT
    /\ task[c].sent200 = "ok"
    /\ net[c].toUp = Payload("c2t", 1, 1)

\* C31: for an HTTP/1.x request the target that is dialed is the one the
\* Host header names, also when the request line is in absolute form with
\* another authority (http://a:81/x with Host: h dials h:80, not a:81), and
\* the request line reaches the target as the client wrote it.
C31_HostHeaderAlone ==
  \A c \in Conns :
    (task[c].kind = "http1" /\ task[c].dial # "none") =>
      /\ HostHeaderTarget(task[c].buffer).some
           => task[c].target = HostHeaderTarget(task[c].buffer)
      /\ task[c].buffer = REQ_GET_ABS =>
           /\ task[c].target = Some([host |-> <<104>>, port |-> 80])
           /\ task[c].target # Some([host |-> <<97>>, port |-> 81])
      /\ (task[c].pc = "relay" \/ task[c].relayed) => IsPrefix(task[c].buffer, net[c].toUp)

\* the request for http://a:81/x with Host: h was dialed to h:80 and
\* forwarded with its absolute request line
C31_Witness ==
  \E c \in Conns :
    /\ task[c].kind = "http1"
    /\ task[c].pc = "relay"
    /\ task[c].buffer = REQ_GET_ABS
    /\ task[c].target = Some([host |-> <<104>>, port |-> 80])
    /\ net[c].toUp = REQ_GET_ABS

\* the trimmed value of the first header line named name (lower case, with
\* its colon), if there is one
HeaderValue(buffer, name) ==
  LET ls == lines(from_utf8_lossy(buffer))
      H == {i \in 1..Len(ls) : starts_with(to_lowercase(ls[i]), name)}
  IN IF H = {} THEN None ELSE Some(trim(From(ls[Min(H)], Len(name) + 1)))

\* C32: for a buffer that is not the HTTP/2 preface and whose method is not
\* CONNECT, the classifier returns WebSocketUpgrade if and only if the
\* headers have Upgrade: websocket and Connection: Upgrade (in any case), a
\* Sec-WebSocket-Key and a Host; the returned key is the client's key, the
\* returned host the Host header's host and the returned port the Host
\* header's port, or 80 without a port.  Stated for the complete requests
\* among the classified buffers.
C32_WebSocketDetails ==
  Returned("detect_protocol") =>
    LET b == probe.arg
        upgrade == HeaderValue(b, <<117, 112, 103, 114, 97, 100, 101, 58>>)
        connection == HeaderValue(b, <<99, 111, 110, 110, 101, 99, 116, 105, 111, 110, 58>>)
        key == HeaderValue(b, L_SEC_WEBSOCKET_KEY)
        host == HostHeaderTarget(b)
        method == parse_http_method(b)
    IN (b \in Requests /\ ~is_http2_preface(b) /\ method.some /\ method.v # S_CONNECT
          /\ host.some) =>
         /\ (probe.out.kind = "WebSocketUpgrade")
              <=> /\ upgrade.some /\ to_lowercase(upgrade.v) = <<119, 101, 98, 115, 111, 99, 107, 101, 116>>
                  /\ connection.some /\ to_lowercase(connection.v) = <<117, 112, 103, 114, 97, 100, 101>>
                  /\ key.some
         /\ probe.out.kind = "WebSocketUpgrade" =>
              /\ probe.out.key = key.v
              /\ probe.out.host = host.v.host
              /\ probe.out.port = host.v.port

\* what a forwarding handler has written to the destination of direction d
\* before its relay starts, and what the relay has written after that
BeforeRelay(c, d) ==
  IF d = "c2t" THEN ExpectedFirstWrite(c)
  ELSE IF task[c].kind = "ws" THEN task[c].out ELSE <<>>
Written(n, d) == IF d = "c2t" THEN n.toUp ELSE n.toClient
RelayWritten(c, d) == From(Written(net[c], d), Len(BeforeRelay(c, d)) + 1)

\* C33: in the HTTP/1.x, HTTP/2 and WebSocket relays, in each direction the
\* bytes the relay has written to the destination are at all times a prefix
\* of the bytes it has read from the source; a successful write appends
\* exactly the bytes of the read before it, after which everything read has
\* been written, in the order it was read.
C33_WrittenPrefixOfRead ==
  /\ [](\A c \in Conns, d \in Dirs :
          (Forwarded(c) /\ (task[c].pc = "relay" \/ task[c].relayed)) =>
            /\ IsPrefix(BeforeRelay(c, d), Written(net[c], d))
            /\ IsPrefix(RelayWritten(c, d), Payload(d, 1, task[c][d].rd))
            /\ (task[c].pc = "relay" /\ task[c][d].st = "write") =>
                 /\ RelayWritten(c, d) = Payload(d, 1, task[c][d].rd - Len(task[c][d].chunk))
                 /\ task[c][d].chunk
                      = Payload(d, task[c][d].rd - Len(task[c][d].chunk) + 1, task[c][d].rd))
  /\ [][\A c \in Conns, d \in Dirs :
          (Forwarded(c) /\ task[c].pc = "relay" /\ task'[c].pc = "relay"
             /\ task[c][d].st = "write" /\ task'[c][d].st = "read") =>
            /\ Written(net'[c], d) = Written(net[c], d) \o task[c][d].chunk
            /\ RelayWritten(c, d)' = Payload(d, 1, task[c][d].rd)]_vars

C33_Witness ==
  \E c \in Conns :
    /\ task[c].kind = "ws"
    /\ task[c].pc = "relay"
    /\ task[c].c2t = [st |-> "read", rd |-> 2, chunk |-> <<>>]
    /\ task[c].t2c.rd = 2
    /\ net[c].toUp = upgrade_request(task[c].upgrade.v) \o Payload("c2t", 1, 2)
    /\ net[c].toClient = task[c].out \o Payload("t2c", 1, 2)

\* the dial of the connection is over
Dialed(c) == task[c].dial \in {"ok", "failed", "timeout"}

\* C34: a client connection dials an upstream at most once: a dial starts
\* only on a connection that has not dialed, and after a failed or timed-out
\* dial, or after a relay has started or ended, the connection never waits
\* in a dial again and its dial outcome and target stay what they were.
C34_AtMostOneDial ==
  /\ [](\A c \in Conns :
          /\ task[c].dials <= 1
          /\ task[c].dials = 1 <=> task[c].dial # "none"
          /\ task[c].pc = "dial" <=> task[c].dial = "pending")
  /\ [][\A c \in Conns :
          /\ task'[c].dials > task[c].dials => task[c].dial = "none"
          /\ (Dialed(c) \/ task[c].relayed \/ task[c].pc \in {"relay", "returned"}) =>
               /\ task'[c].pc # "dial"
               /\ task'[c].dial # "pending"
               /\ task'[c].pc # "done" =>
                    /\ task'[c].dials = task[c].dials
                    /\ task'[c].dial = task[c].dial
                    /\ task'[c].target = task[c].target]_vars

C34_Witness ==
  \E c \in Conns :
    /\ task[c].dials = 1
    /\ task[c].pc = "returned"
    /\ \/ task[c].dial \in {"failed", "timeout"}
       \/ task[c].dial = "ok" /\ task[c].exit # "none"

\* C35: the available permits plus the live tasks always equal
\* max-connections; a task whose handle_connection has returned, by whatever
\* path, can give back its permit and does nothing else; a permit comes back
\* one at a time, from one task that thereby ends, and an ended task never
\* acts again.
C35_PermitConservation ==
  /\ [](permits + Cardinality({c \in Conns : Live(c)}) = config.max_connections)
  /\ [](\A c \in Conns : task[c].pc = "returned" => ENABLED DropPermit(c))
  /\ [][/\ permits' > permits =>
             /\ permits' = permits + 1
             /\ \E c \in Conns :
                  /\ task[c].pc = "returned" /\ task'[c].pc = "done"
                  /\ \A d \in Conns \ {c} : task'[d] = task[d]
        /\ \A c \in Conns :
             /\ task[c].pc = "done" => task'[c] = task[c]
             /\ (task[c].pc = "returned" /\ task'[c] # task[c]) =>
                  task'[c].pc = "done" /\ permits' = permits + 1
             /\ (task[c].pc # "done" /\ task'[c].pc = "done") =>
                  task[c].pc = "returned" /\ permits' = permits + 1]_vars

\* the only permit has come back from a task whose relay ended, and the
\* next connection has taken it
C35_Witness ==
  \E c \in Conns, d \in Conns :
    /\ task[c].pc = "done"
    /\ task[d].pc = "returned" /\ task[d].dial = "failed"
    /\ permits = config.max_connections - 1

\* both peers of the connection are gone: closed, or broken
Gone(n) == (n.cClosed \/ n.cFailed) /\ (n.uClosed \/ n.uFailed)

\* C36: under fair scheduling, a relay whose client and upstream have both
\* closed or broken their connections leads to the task having returned and
\* given back its permit, in the CONNECT relay as in the others.
C36_GonePeersEndTask ==
  \A c \in Conns :
    (task[c].pc = "relay" /\ Gone(net[c]))
      ~> (task[c].pc = "done" /\ permits = config.max_connections)

\* the connections accepted and not yet handed to a task
Undispatched == {c \in 1..arrived : task[c].pc = "idle"}

C38_ParserStaysInBuffer ==
  \A c \in Conns :
    /\ ~task[c].panicked
    /\ (task[c].protocol \in {"Http10", "Http11"} /\ HasBuffer(c)) =>
         http1_parse_http_request(task[c].buffer).r # "Panic"

\* what the dispatcher and the handler derived from the initial buffer
Routing(t) == <<t.buffer, t.protocol, t.kind, t.target, t.upgrade, t.dial, t.dials>>

\* C39: on an HTTP/1.x forward connection the upstream is the one dialed
\* once for the Host header of the initial buffer; through the relay and
\* after it nothing of what was derived from the initial buffer changes,
\* whatever the client sends later, and what the client sends later goes to
\* that upstream after the initial buffer, unchanged and in order.
C39_UpstreamChosenOnce ==
  /\ [](\A c \in Conns :
          (task[c].kind = "http1" /\ (task[c].pc = "relay" \/ task[c].relayed)) =>
            /\ task[c].dials = 1 /\ task[c].dial = "ok"
            /\ LET request == http1_parse_http_request(task[c].buffer)
               IN /\ request.r = "Some"
                  /\ task[c].target = Some([host |-> request.host, port |-> request.port])
            /\ HostHeaderTarget(task[c].buffer).some =>
                 task[c].target = HostHeaderTarget(task[c].buffer)
            /\ IsPrefix(task[c].buffer, net[c].toUp)
            /\ IsPrefix(From(net[c].toUp, Len(task[c].buffer) + 1),
                        Payload("c2t", 1, net[c].cSent)))
  /\ [][\A c \in Conns :
          (task[c].kind = "http1" /\ task[c].pc \in {"relay", "returned"}
             /\ task'[c].pc # "done") => Routing(task[c])' = Routing(task[c])]_vars

C39_Witness ==
  \E c \in Conns :
    /\ task[c].kind = "http1"
    /\ task[c].pc = "relay"
    /\ task[c].target = HostHeaderTarget(task[c].buffer)
    /\ task[c].target = Some([host |-> <<104>>, port |-> 8080])
    /\ net[c].cSent = 2
    /\ net[c].toUp = task[c].buffer \o Payload("c2t", 1, 2)
    /\ net[c].toClient = Payload("t2c", 1, 1)

\* the value of the Proxy-Authorization header the client presented
PresentedCredentials(buffer) == HeaderValue(buffer, L_PROXY_AUTHORIZATION \o <<58>>)

====
